---- MODULE Spec2Model ----
(***************************************************************************)
(* Model of src/therapist.py: main() as a state machine.                   *)
(*                                                                         *)
(* Time is counted in tenths of a second (the unit of the 0.1 s epsilon of *)
(* the rate-limit wait), so the 60 s window is 600.                        *)
(*                                                                         *)
(* A log file is a record:                                                 *)
(*   file      "None" | "handle"   the Python variable (preLogFile, ...)   *)
(*   stream    "absent" | "open" | "closed"   the file on disk / OS handle *)
(*   unflushed TRUE when a record was written since the last flush         *)
(*   endMarks  number of timestamped end markers written                   *)
(*   closes    number of close() calls                                     *)
(*   recs      (chat log) kinds of the records written in the current turn *)
(*   stamps    the timestamps written in the current turn, in file order,  *)
(*             after the last timestamp written before it                  *)
(***************************************************************************)
EXTENDS Integers, Sequences, FiniteSets, TLC

VARIABLES
    pc,                 \* position of main()
    ended,              \* "" while running, else how the session ended
    fatalCause,         \* what made the session end fatally ("" if nothing)
    now,                \* the clock (time.time(), datetime.now())
    requestsPerMinute,  \* the module global REQUESTS_PER_MINUTE of this run
    messageTimestamps,  \* the deque of call timestamps
    waitTime,           \* waitTime of the current turn's rate-limit wait (0: none)
    waitStart,          \* currentTime at which that wait was computed
    logDirsCreated,
    preLogFile,
    chatLogFile,
    modelInit,          \* genai.GenerativeModel(...) / start_chat ran
    files,              \* what the loaders find on disk (the context sources)
    combinedSystemInstruction,
    useFileFirstPrompt,
    i,
    current_time_str,   \* the timestamp taken at the top of the loop
    userInput,          \* the input of the current iteration (Unbound before it is read)
    queueBeforeAdmit,   \* the deque when the current turn reached the rate-limit check
    turnCall,           \* a call was admitted in the current turn
    apiResult,          \* what the current turn's call returned ("" before)
    handlerRaised,      \* the except clause handling the call itself raised
    queueAtAdmit,       \* the deque right after the current turn's append
    sentTimes,          \* history: when the calls of the last 60 s were sent
    keptTimes,          \* history: those of them whose credit was not refunded
    gitignore,          \* EnsureGitignore: the .gitignore file and the last run
    loader,             \* LoadTherapyNotes / LoadPastConversations: one batch
    reply,              \* "Process Response": a response and its classification
    callers             \* the rate-limit check run by callers sharing the deque

vars == <<pc, ended, fatalCause, now, requestsPerMinute, messageTimestamps,
          waitTime, waitStart, logDirsCreated, preLogFile, chatLogFile, modelInit,
          files, combinedSystemInstruction,
          useFileFirstPrompt, i, current_time_str, userInput, queueBeforeAdmit,
          turnCall, apiResult, handlerRaised, queueAtAdmit, sentTimes,
          keptTimes, gitignore, loader, reply, callers>>

\* The parts of the program that are modelled on their own, apart from the
\* run of main().
partVars == <<gitignore, loader, reply, callers>>

(***************************************************************************)
(* Program constants                                                       *)
(***************************************************************************)
REQUESTS_PER_MINUTE == 5
Window == 600
Epsilon == 1

(***************************************************************************)
(* Bounds of the model                                                     *)
(***************************************************************************)
MaxTime == 910
MaxCalls == 6
\* The run with two requests per minute: the user is at the prompt second by
\* second up to this time.
LastSubmit == 20

\* Amounts by which the clock advances while the program blocks.
TickSteps == {300, 601}
\* How much longer than waitTime the rate-limit sleep loop may take.
Overshoot == {0, 1}

(***************************************************************************)
(* Inputs                                                                  *)
(***************************************************************************)
\* What the user can type at the console prompt (before .strip()).
ConsoleInputs == {"", "   ", "quit", "EXIT", "hello"}
\* What prompt.txt can hold (read_text(), not stripped).
FileContents == {"", "\n", "hello\n", "quit", "quit\n"}

\* userInput before the first read of the loop.
Unbound == "<unbound>"

\* str.strip() on the inputs above.
Strip(s) ==
    CASE s \in {"   ", "\n"} -> ""
      [] s = "hello\n" -> "hello"
      [] s = "quit\n" -> "quit"
      [] OTHER -> s

\* str.lower() on the inputs above.
Lower(s) ==
    CASE s = "EXIT" -> "exit"
      [] OTHER -> s

ApiErrors == {"PermissionDenied", "NotFound", "ResourceExhausted",
              "InvalidArgument", "OtherError"}
ApiResponses == {"Delivered", "Blocked"}

(***************************************************************************)
(* Context sources and the system instruction                              *)
(*                                                                         *)
(* A text is the sequence of its lines (str.split("\n")), so the empty     *)
(* string is <<"">>. The fixed sentences of the instruction are cut short  *)
(* ("..."); the section markers are kept as they are.                      *)
(***************************************************************************)
\* ""
Empty == <<"">>

\* Truth value of a str: `if therapyNotesText:`
Truthy(text) == text # Empty

\* A file LoadTextFile cannot read (it returns None), and one it can.
Missing == [readable |-> FALSE, text |-> Empty]
FileWith(text) == [readable |-> TRUE, text |-> text]

SystemPrompts == {Empty, <<"Listen.">>, <<"Be kind.", "", "Be brief.">>}
Backgrounds == {Empty, <<"Name: Sam", "Works nights.">>}
\* What LoadTherapyNotes returns: "" or the combined notes.
NotesTexts == {Empty, <<"Session 1: sleep.">>}
\* What LoadPastConversations returns: "" or the combined logs.
PastTexts == {Empty,
              <<"--- Start Past Conversation: chat_log_1.txt ---",
                "[t] You: hi",
                "--- End Past Conversation: chat_log_1.txt ---">>}

Environments ==
    [sysprompt : {Missing} \cup {FileWith(t) : t \in SystemPrompts},
     background : {Missing} \cup {FileWith(t) : t \in Backgrounds},
     notes : NotesTexts,
     past : PastTexts]

\* The environments of the runs that go on to the conversation loop: no
\* optional source, and the system prompt in place or not.
LoopEnvironments ==
    {env \in Environments :
        /\ env.sysprompt \in {Missing, FileWith(<<"Listen.">>)}
        /\ ~env.background.readable
        /\ ~Truthy(env.notes)
        /\ ~Truthy(env.past)}

\* a + b on strings
Concat(a, b) ==
    SubSeq(a, 1, Len(a) - 1) \o <<a[Len(a)] \o b[1]>> \o Tail(b)

RECURSIVE Join(_)
\* "".join(parts)
Join(parts) ==
    IF Len(parts) = 1 THEN parts[1] ELSE Concat(parts[1], Join(Tail(parts)))

\* f"Current Date and Time: {formattedDateTime}\n\n{baseSystemPrompt}"
WithDateTime(baseSystemPrompt) ==
    Concat(<<"Current Date and Time: <formattedDateTime>", "", "">>,
           baseSystemPrompt)

FallbackBackground == <<"No user background information was loaded.">>

BackgroundPart(userBackground) ==
    Concat(Concat(<<"", "", "--- USER BACKGROUND INFORMATION ---",
                    "Use this information ...",
                    "", "">>,
                  userBackground),
           <<"", "", "--- END USER BACKGROUND INFORMATION ---">>)

\* A variant of NotesPart that appends nothing when no notes were loaded.
NotesPartOrNothing(therapyNotesText) ==
    IF Truthy(therapyNotesText)
    THEN Concat(Concat(<<"", "", "--- BEGIN THERAPY NOTES HISTORY ---",
                         "Use these notes ...",
                         "", "">>,
                       therapyNotesText),
                <<"", "", "--- END THERAPY NOTES HISTORY ---">>)
    ELSE Empty

NotesPart(therapyNotesText) ==
    IF Truthy(therapyNotesText)
    THEN Concat(Concat(<<"", "", "--- BEGIN THERAPY NOTES HISTORY ---",
                         "Use these notes ...",
                         "", "">>,
                       therapyNotesText),
                <<"", "", "--- END THERAPY NOTES HISTORY ---">>)
    ELSE <<"", "", "--- THERAPY NOTES HISTORY ---",
           "No therapy notes loaded.",
           "--- END THERAPY NOTES HISTORY ---">>

PastPart(pastConversationsText) ==
    IF Truthy(pastConversationsText)
    THEN Concat(Concat(<<"", "", "--- BEGIN PAST CONVERSATION HISTORY ---",
                         "This section contains logs ...",
                         "", "">>,
                       pastConversationsText),
                <<"", "", "--- END PAST CONVERSATION HISTORY ---">>)
    ELSE <<"", "", "--- PAST CONVERSATION HISTORY ---",
           "No past conversation history loaded.",
           "--- END PAST CONVERSATION HISTORY ---">>

RemindersPart ==
    <<"", "", "--- IMPORTANT REMINDERS ---",
      "1. Role: ...", "2. Ethics: ...", "3. Crisis: ...", "4. Context: ...",
      "--- END IMPORTANT REMINDERS ---">>

\* systemInstructionParts as main() builds it from what the loaders return.
SystemInstructionPartsOf(env) ==
    LET baseSystemPrompt == WithDateTime(env.sysprompt.text)
        userBackground == IF env.background.readable THEN env.background.text
                          ELSE FallbackBackground
    IN  <<baseSystemPrompt, BackgroundPart(userBackground), NotesPart(env.notes),
          PastPart(env.past), RemindersPart>>

(***************************************************************************)
(* Log files                                                               *)
(***************************************************************************)
\* start_time = datetime.datetime.now() as main() is entered.
start_time == 0

\* A variant of TimestampOf for a format string without date, hour and
\* minute ("%S").
TimestampSecondOfMinute(t) == (t \div 10) % 60

\* strftime("%Y-%m-%d %A %H:%M:%S"): the clock cut to whole seconds.
TimestampOf(t) == t \div 10

NoLog == [file |-> "None", stream |-> "absent", unflushed |-> FALSE,
          endMarks |-> 0, closes |-> 0, recs |-> <<>>, stamps |-> <<>>]

\* open(name, "w") followed by the header writes ("--- ... Log Start:
\* {formatted_start_time} ---") and flush().
OpenedLog == [NoLog EXCEPT !.file = "handle", !.stream = "open",
                           !.stamps = <<TimestampOf(start_time)>>]

\* open() succeeded, a header write raised IOError: the variable is reset to
\* None, the stream stays open and is never closed.
LeakedLog == [NoLog EXCEPT !.stream = "open", !.unflushed = TRUE]

\* A variant of StartupExit: the `return` of a startup that is given up
\* passes through the finally block of the conversation loop.
StartupExitThroughFinally == "Finalize"

\* The `return` after a startup that is given up comes before the try of the
\* conversation loop: main() is left at once.
StartupExit == "Done"

\* f.write(record): `if f:` guards every write in main().
LogWrite(log, kind) ==
    IF log.file = "None" THEN log
    ELSE [log EXCEPT !.recs = Append(@, kind), !.unflushed = TRUE]

\* f.write(f"\n[{time_str}] Role: text\n")
LogRecord(log, kind, time_str) ==
    IF log.file = "None" THEN log
    ELSE [LogWrite(log, kind) EXCEPT !.stamps = Append(@, time_str)]

\* The text each kind of record is written with: whether it starts with
\* "[<time_str>] ", and the word before the first ": ". The end-of-input,
\* interrupt and exit-command lines ("Marker") are "--- ... ---" lines.
RecordFormat(kind) ==
    CASE kind = "You" -> [marker |-> FALSE, stamped |-> TRUE, role |-> "You"]
      [] kind = "RateWait" ->
            [marker |-> FALSE, stamped |-> TRUE, role |-> "System"]
      [] kind = "WaitDone" ->
            \* "  (Rate limit wait finished)\n"
            [marker |-> FALSE, stamped |-> FALSE, role |-> ""]
      [] kind = "BlockWarn" ->
            [marker |-> FALSE, stamped |-> TRUE, role |-> "System"]
      [] kind = "AIResponse" ->
            [marker |-> FALSE, stamped |-> TRUE, role |-> "AI Therapist"]
      [] kind = "SysError" ->
            [marker |-> FALSE, stamped |-> TRUE, role |-> "System Error"]
      [] kind = "Marker" -> [marker |-> TRUE, stamped |-> FALSE, role |-> ""]

\* f.flush()
LogFlush(log) ==
    IF log.file = "None" THEN log ELSE [log EXCEPT !.unflushed = FALSE]

\* f.write("--- ... End: <end_time_str> ---")
LogEndMark(log, end_time_str) ==
    [log EXCEPT !.endMarks = @ + 1, !.unflushed = TRUE,
                !.stamps = Append(@, end_time_str)]

\* f.close()
LogClose(log) ==
    [log EXCEPT !.stream = "closed", !.closes = @ + 1, !.unflushed = FALSE]

\* The chat log at the top of the loop: a new turn starts.
NewTurn(log) ==
    [log EXCEPT !.recs = <<>>,
                !.stamps = IF @ = <<>> THEN @ ELSE <<@[Len(@)]>>]

(***************************************************************************)
(* Rate limiter                                                            *)
(***************************************************************************)
RECURSIVE EvictAtWindow(_, _)
\* A variant of Evict that also removes a timestamp that is exactly 60 s old.
EvictAtWindow(q, currentTime) ==
    IF q # <<>> /\ currentTime - Head(q) >= Window
    THEN EvictAtWindow(Tail(q), currentTime)
    ELSE q

RECURSIVE Evict(_, _)
\* while messageTimestamps and currentTime - messageTimestamps[0] > 60: popleft()
Evict(q, currentTime) ==
    IF q # <<>> /\ currentTime - Head(q) > Window
    THEN Evict(Tail(q), currentTime)
    ELSE q

\* A variant of RateLimited that compares with > instead of >=.
RateLimitedStrict(q) == Len(q) > requestsPerMinute

\* len(messageTimestamps) >= REQUESTS_PER_MINUTE
RateLimited(q) == Len(q) >= requestsPerMinute

\* A variant of WaitTimeOf that subtracts the epsilon instead of adding it.
WaitTimeShort(q, currentTime) == Window - (currentTime - Head(q)) - Epsilon

\* A variant of WaitTimeOf that measures from the newest timestamp of the
\* deque instead of the oldest.
WaitTimeFromNewest(q, currentTime) ==
    Window - (currentTime - q[Len(q)]) + Epsilon

\* A variant of WaitTimeOf that adds the age of the oldest timestamp instead
\* of subtracting it.
WaitTimePlusAge(q, currentTime) == Window + (currentTime - Head(q)) + Epsilon

\* A variant of WaitTimeOf without the added tenth of a second.
WaitTimeExact(q, currentTime) == Window - (currentTime - Head(q))

\* waitTime = 60 - timeSinceOldest + 0.1
WaitTimeOf(q, currentTime) == Window - (currentTime - Head(q)) + Epsilon

\* A variant of Refund that removes the oldest timestamp (popleft) instead
\* of the newest.
RefundOldest(q) == IF q # <<>> THEN Tail(q) ELSE q

\* messageTimestamps.pop(), guarded by `if messageTimestamps:`
Refund(q) == IF q # <<>> THEN SubSeq(q, 1, Len(q) - 1) ELSE q

(***************************************************************************)
(* Startup order                                                           *)
(***************************************************************************)
\* A variant of StartupOrder with the model initialised before the system
\* prompt is loaded.
StartupOrderInitFirst ==
    <<"SetupLogging", "InitializeAI", "LoadStaticContext", "OpenChatLog",
      "FirstPromptQuestion", "AwaitingInput">>

\* The sections of main() before the conversation loop, in program order.
StartupOrder ==
    <<"SetupLogging", "LoadStaticContext", "InitializeAI", "OpenChatLog",
      "FirstPromptQuestion", "AwaitingInput">>

\* The section that follows `step`.
After(step) ==
    StartupOrder[1 + CHOOSE k \in 1..(Len(StartupOrder) - 1) : StartupOrder[k] = step]

(***************************************************************************)
(* Initial state: main() is entered                                        *)
(***************************************************************************)
\* main() is entered: nothing is opened, read or sent yet.
Entered ==
    /\ pc = StartupOrder[1]
    /\ ended = ""
    /\ fatalCause = ""
    /\ now = 0
    /\ messageTimestamps = <<>>
    /\ waitTime = 0
    /\ waitStart = 0
    /\ logDirsCreated = FALSE
    /\ preLogFile = NoLog
    /\ chatLogFile = NoLog
    /\ modelInit = FALSE
    /\ combinedSystemInstruction = <<>>
    /\ useFileFirstPrompt = FALSE
    /\ i = 0
    /\ current_time_str = TimestampOf(start_time)
    /\ userInput = Unbound
    /\ queueBeforeAdmit = <<>>
    /\ turnCall = FALSE
    /\ apiResult = ""
    /\ handlerRaised = FALSE
    /\ queueAtAdmit = <<>>
    /\ sentTimes = <<>>
    /\ keptTimes = <<>>

\* The parts modelled on their own are not run.
GitignoreIdle == gitignore = [stage |-> "idle"]
LoaderIdle == loader = [stage |-> "idle"]
ReplyIdle == reply = [stage |-> "idle"]
CallersIdle == callers = [stage |-> "idle"]

Init ==
    /\ requestsPerMinute = REQUESTS_PER_MINUTE
    /\ files \in LoopEnvironments
    /\ Entered
    /\ GitignoreIdle /\ LoaderIdle /\ ReplyIdle /\ CallersIdle

contextVars == <<files, combinedSystemInstruction, partVars>>

loopVars == <<now, requestsPerMinute, messageTimestamps, waitTime, waitStart,
              useFileFirstPrompt, i, current_time_str, userInput,
              queueBeforeAdmit, turnCall, apiResult, handlerRaised,
              queueAtAdmit, sentTimes, keptTimes>>

(***************************************************************************)
(* Startup                                                                 *)
(***************************************************************************)
\* API key check, then "Setup Logging": mkdir of the history directories and
\* open of the pre-chat log.
SetupLogging ==
    /\ pc = "SetupLogging"
    /\ \E apiKey \in BOOLEAN, mkdirOk \in BOOLEAN,
          opened \in {"ok", "openFails", "writeFails"} :
          IF ~apiKey
          THEN /\ pc' = "Done"
               /\ ended' = "StartupFatal"
               /\ fatalCause' = "ApiKey"
               /\ UNCHANGED <<logDirsCreated, preLogFile>>
          ELSE /\ pc' = After("SetupLogging")
               /\ logDirsCreated' = mkdirOk
               /\ preLogFile' = IF ~mkdirOk \/ opened = "openFails" THEN NoLog
                                ELSE IF opened = "writeFails" THEN LeakedLog
                                ELSE OpenedLog
               /\ UNCHANGED <<ended, fatalCause>>
    /\ UNCHANGED <<chatLogFile, modelInit>>
    /\ UNCHANGED <<loopVars, contextVars>>

\* LoadTextFile(SYS_PROMPT_FILE): None is fatal. Otherwise the context is
\* assembled and written to the pre-chat log.
LoadStaticContext ==
    /\ pc = "LoadStaticContext"
    /\ \E promptLoaded \in {files.sysprompt.readable}, writeFails \in BOOLEAN :
          /\ writeFails => preLogFile.file = "handle"
          /\ IF promptLoaded
             THEN combinedSystemInstruction' =
                     Join(SystemInstructionPartsOf(files))
             ELSE UNCHANGED combinedSystemInstruction
          /\ IF writeFails
             THEN \* the write raises outside any try: main() is left
                  /\ pc' = "Done"
                  /\ ended' = "Crashed"
                  /\ fatalCause' = IF promptLoaded THEN "Unexpected"
                                   ELSE "SystemPrompt"
                  /\ preLogFile' = preLogFile
             ELSE IF ~promptLoaded
             THEN /\ pc' = StartupExit
                  /\ ended' = "StartupFatal"
                  /\ fatalCause' = "SystemPrompt"
                  /\ preLogFile' = IF preLogFile.file = "handle"
                                   THEN LogClose(LogWrite(preLogFile, "Fatal"))
                                   ELSE preLogFile
             ELSE /\ pc' = After("LoadStaticContext")
                  /\ preLogFile' = LogFlush(LogWrite(preLogFile, "Context"))
                  /\ UNCHANGED <<ended, fatalCause>>
    /\ UNCHANGED <<logDirsCreated, chatLogFile, modelInit, files, partVars>>
    /\ UNCHANGED loopVars

\* genai.configure, GenerativeModel, start_chat inside try / except Exception.
InitializeAI ==
    /\ pc = "InitializeAI"
    /\ \E initOk \in BOOLEAN, writeFails \in BOOLEAN :
          /\ writeFails => (~initOk /\ preLogFile.file = "handle")
          /\ IF initOk
             THEN /\ pc' = After("InitializeAI")
                  /\ modelInit' = TRUE
                  /\ UNCHANGED <<ended, fatalCause, preLogFile>>
             ELSE /\ pc' = IF writeFails THEN "Done" ELSE StartupExit
                  /\ UNCHANGED modelInit
                  /\ ended' = IF writeFails THEN "Crashed" ELSE "StartupFatal"
                  /\ fatalCause' = "AIInit"
                  /\ preLogFile' = IF preLogFile.file = "handle" /\ ~writeFails
                                   THEN LogClose(LogWrite(preLogFile, "Fatal"))
                                   ELSE preLogFile
    /\ UNCHANGED <<logDirsCreated, chatLogFile>>
    /\ UNCHANGED <<loopVars, contextVars>>

\* "Open Chat Log File": only when the directories exist.
OpenChatLog ==
    /\ pc = "OpenChatLog"
    /\ \E opened \in {"ok", "openFails", "writeFails"} :
          chatLogFile' = IF ~logDirsCreated \/ opened = "openFails" THEN NoLog
                         ELSE IF opened = "writeFails" THEN LeakedLog
                         ELSE OpenedLog
    /\ pc' = After("OpenChatLog")
    /\ UNCHANGED <<ended, fatalCause, logDirsCreated, preLogFile, modelInit>>
    /\ UNCHANGED <<loopVars, contextVars>>

\* console.input("Would you like to use the file for the first prompt?"),
\* outside the main try block: EOF or an interrupt leaves main() at once.
FirstPromptQuestion ==
    /\ pc = "FirstPromptQuestion"
    /\ \E answer \in {"y", "n", "EOF", "Interrupt"} :
          CASE answer \in {"y", "n"} ->
                  /\ useFileFirstPrompt' = (answer = "y")
                  /\ pc' = After("FirstPromptQuestion")
                  /\ current_time_str' = TimestampOf(now)
                  /\ UNCHANGED <<ended, fatalCause>>
            [] answer = "EOF" ->
                  /\ pc' = "Done"
                  /\ ended' = "EndedByEOF"
                  /\ UNCHANGED <<useFileFirstPrompt, fatalCause,
                                 current_time_str>>
            [] answer = "Interrupt" ->
                  /\ pc' = "Done"
                  /\ ended' = "EndedByInterrupt"
                  /\ UNCHANGED <<useFileFirstPrompt, fatalCause,
                                 current_time_str>>
    /\ UNCHANGED <<logDirsCreated, preLogFile, chatLogFile, modelInit>>
    /\ UNCHANGED contextVars
    /\ UNCHANGED <<now, requestsPerMinute, messageTimestamps, waitTime,
                   waitStart, i, userInput, queueBeforeAdmit, turnCall,
                   apiResult, handlerRaised, queueAtAdmit, sentTimes, keptTimes>>

(***************************************************************************)
(* Conversation loop: reading the input                                    *)
(***************************************************************************)
HasChat == chatLogFile.file = "handle"

\* First iteration with useFileFirstPrompt: Path("prompt.txt").read_text().
FileRoute == useFileFirstPrompt /\ i = 0

\* userInput as the loop sees it: the file's text as read, or the stripped
\* console line.
UserInputs ==
    IF FileRoute THEN FileContents ELSE {Strip(raw) : raw \in ConsoleInputs}

\* userInput.lower() in ["quit", "exit"]
IsExitCommand(text) == Lower(text) \in {"quit", "exit"}

startVars == <<requestsPerMinute, logDirsCreated, preLogFile, modelInit,
               useFileFirstPrompt, files, combinedSystemInstruction, partVars>>
turnVars == <<turnCall, apiResult, handlerRaised, queueAtAdmit, waitTime,
              waitStart, queueBeforeAdmit>>
history == <<sentTimes, keptTimes>>

RECURSIVE Forget(_, _)
\* The history without the calls sent more than 60 s before t: no interval
\* of 60 s that holds a later call holds them.
Forget(h, t) ==
    IF h # <<>> /\ t - Head(h) > Window THEN Forget(Tail(h), t) ELSE h

\* read_text() raises (prompt.txt missing or unreadable): neither EOFError
\* nor KeyboardInterrupt, so it reaches the outer `except Exception`.
InputReadFails ==
    /\ pc = "AwaitingInput"
    /\ FileRoute
    /\ pc' = "OuterExcept"
    /\ UNCHANGED <<ended, fatalCause, now, messageTimestamps, i,
                   current_time_str, userInput, chatLogFile>>
    /\ UNCHANGED <<startVars, turnVars, history>>

\* except EOFError / except KeyboardInterrupt around console.input: a marker
\* is written and the loop is left. A failing write raises inside the except
\* clause and reaches the outer handler.
InputClosed ==
    /\ pc = "AwaitingInput"
    /\ ~FileRoute
    /\ \E signal \in {"EndedByEOF", "EndedByInterrupt"}, writeFails \in BOOLEAN :
          /\ writeFails => HasChat
          /\ IF writeFails
             THEN /\ pc' = "OuterExcept"
                  /\ UNCHANGED <<ended, chatLogFile>>
             ELSE /\ pc' = "Finalize"
                  /\ chatLogFile' = LogWrite(chatLogFile, "Marker")
                  /\ ended' = signal
    /\ UNCHANGED <<fatalCause, now, messageTimestamps, i, current_time_str,
                   userInput>>
    /\ UNCHANGED <<startVars, turnVars, history>>

\* `if not userInput: continue`, and the top of the loop is passed again.
InputEmpty ==
    /\ pc = "AwaitingInput"
    /\ \E text \in UserInputs :
          /\ text = ""
          /\ userInput' = text
          /\ i' = IF FileRoute THEN i + 1 ELSE i
    /\ pc' = "AwaitingInput"
    /\ current_time_str' = TimestampOf(now)
    /\ UNCHANGED <<ended, fatalCause, now, messageTimestamps, chatLogFile>>
    /\ UNCHANGED <<startVars, turnVars, history>>

\* "Check for exit command": marker, break.
InputExitCommand ==
    /\ pc = "AwaitingInput"
    /\ \E text \in UserInputs, writeFails \in BOOLEAN :
          /\ text # ""
          /\ IsExitCommand(text)
          /\ userInput' = text
          /\ writeFails => HasChat
          /\ i' = IF FileRoute THEN i + 1 ELSE i
          /\ IF writeFails
             THEN /\ pc' = "OuterExcept"
                  /\ UNCHANGED <<ended, chatLogFile>>
             ELSE /\ pc' = "Finalize"
                  /\ chatLogFile' = LogWrite(chatLogFile, "Marker")
                  /\ ended' = "EndedByCommand"
    /\ UNCHANGED <<fatalCause, now, messageTimestamps, current_time_str>>
    /\ UNCHANGED <<startVars, turnVars, history>>

(***************************************************************************)
(* Conversation loop: one turn                                             *)
(***************************************************************************)
\* A variant of Admit: the call is sent and its timestamp is not yet in the
\* deque.
AdmitUnstamped(q, t) ==
    /\ messageTimestamps' = q
    /\ queueAtAdmit' = Append(q, t)
    /\ turnCall' = TRUE
    /\ sentTimes' = Append(Forget(sentTimes, t), t)
    /\ keptTimes' = Append(Forget(keptTimes, t), t)
    /\ pc' = "InFlight"

\* messageTimestamps.append(time.time()); chat.send_message(userInput)
Admit(q, t) ==
    /\ messageTimestamps' = Append(q, t)
    /\ queueAtAdmit' = Append(q, t)
    /\ turnCall' = TRUE
    /\ sentTimes' = Append(Forget(sentTimes, t), t)
    /\ keptTimes' = Append(Forget(keptTimes, t), t)
    /\ pc' = "InFlight"

\* A forwarded input: "Log User Input", "Rate Limiting Check", then either
\* the wait is started or the call is sent.
SubmitTurn ==
    /\ pc = "AwaitingInput"
    /\ Len(sentTimes) < MaxCalls
    /\ \E text \in UserInputs,
          fault \in {"none", "userWrite", "userFlush", "waitWrite"} :
          LET currentTime == now
              evicted == Evict(messageTimestamps, currentTime)
              logged ==
                  LogFlush(LogRecord(chatLogFile, "You", current_time_str))
              system_time_str == TimestampOf(now)
          IN  /\ text # ""
              /\ ~IsExitCommand(text)
              /\ userInput' = text
              /\ queueBeforeAdmit' =
                    IF fault \in {"userWrite", "userFlush"} THEN queueBeforeAdmit
                    ELSE messageTimestamps
              /\ fault # "none" => HasChat
              /\ fault = "waitWrite" => RateLimited(evicted)
              /\ i' = IF FileRoute THEN i + 1 ELSE i
              /\ CASE fault = "userWrite" ->
                        /\ pc' = "OuterExcept"
                        /\ UNCHANGED <<chatLogFile, messageTimestamps, waitTime,
                                       waitStart, turnCall, queueAtAdmit, history>>
                   [] fault = "userFlush" ->
                        /\ pc' = "OuterExcept"
                        /\ chatLogFile' =
                              LogRecord(chatLogFile, "You", current_time_str)
                        /\ UNCHANGED <<messageTimestamps, waitTime, waitStart,
                                       turnCall, queueAtAdmit, history>>
                   [] fault = "waitWrite" ->
                        /\ pc' = "OuterExcept"
                        /\ chatLogFile' = logged
                        /\ messageTimestamps' = evicted
                        /\ waitTime' = WaitTimeOf(evicted, currentTime)
                        /\ waitStart' = currentTime
                        /\ UNCHANGED <<turnCall, queueAtAdmit, history>>
                   [] fault = "none" /\ RateLimited(evicted) ->
                        /\ pc' = "RateLimitWait"
                        /\ chatLogFile' =
                              LogRecord(logged, "RateWait", system_time_str)
                        /\ messageTimestamps' = evicted
                        /\ waitTime' = WaitTimeOf(evicted, currentTime)
                        /\ waitStart' = currentTime
                        /\ UNCHANGED <<turnCall, queueAtAdmit, history>>
                   [] fault = "none" /\ ~RateLimited(evicted) ->
                        /\ chatLogFile' = logged
                        /\ Admit(evicted, currentTime)
                        /\ UNCHANGED <<waitTime, waitStart>>
    /\ UNCHANGED <<ended, fatalCause, now, current_time_str, apiResult,
                   handlerRaised>>
    /\ UNCHANGED startVars

\* The sleep loop has run for waitTime (or a little longer); "(Rate limit
\* wait finished)" is written, the deque is evicted again at the new
\* currentTime and the call is sent.
WaitFinished ==
    /\ pc = "RateLimitWait"
    /\ \E over \in Overshoot, writeFails \in BOOLEAN :
          LET currentTime == waitStart + waitTime + over
          IN  /\ currentTime <= MaxTime
              /\ writeFails => HasChat
              /\ now' = currentTime
              /\ IF writeFails
                 THEN /\ pc' = "OuterExcept"
                      /\ sentTimes' = Forget(sentTimes, currentTime)
                      /\ keptTimes' = Forget(keptTimes, currentTime)
                      /\ UNCHANGED <<chatLogFile, messageTimestamps, turnCall,
                                     queueAtAdmit>>
                 ELSE /\ chatLogFile' = LogWrite(chatLogFile, "WaitDone")
                      /\ Admit(Evict(messageTimestamps, currentTime), currentTime)
    /\ UNCHANGED <<ended, fatalCause, waitTime, waitStart, i,
                   current_time_str, userInput, queueBeforeAdmit, apiResult,
                   handlerRaised>>
    /\ UNCHANGED startVars

\* KeyboardInterrupt while sleeping or while the call is in flight: no
\* `except Exception` catches it, the finally block runs.
Interrupted ==
    /\ pc \in {"RateLimitWait", "InFlight"}
    /\ pc' = "Finalize"
    /\ ended' = "EndedByInterrupt"
    /\ UNCHANGED <<fatalCause, chatLogFile, now, messageTimestamps, i,
                   current_time_str, userInput>>
    /\ UNCHANGED <<startVars, turnVars, history>>

(***************************************************************************)
(* Conversation loop: the response and the except clauses                  *)
(***************************************************************************)
\* Which I/O operation of "Process Response" raises, if any.
ProcessFaults == {"none", "warnWrite", "display", "respWrite", "flush"}

\* A variant of FaultApplies in which the panel is only printed, and so can
\* only fail, when there is a chat log.
FaultAppliesWithLogOnly(fault, result, log) ==
    CASE fault = "warnWrite" -> result = "Blocked" /\ log.file = "handle"
      [] fault \in {"display", "respWrite", "flush"} -> log.file = "handle"
      [] OTHER -> TRUE

\* Which of them can raise: a write needs the log, and the warning record a
\* blocked response.
FaultApplies(fault, result, log) ==
    CASE fault = "warnWrite" -> result = "Blocked" /\ log.file = "handle"
      [] fault \in {"respWrite", "flush"} -> log.file = "handle"
      [] OTHER -> TRUE

\* A variant of ProcessResponse that shows the response and writes no record
\* of it.
ProcessResponseUnlogged(log, result, fault, response_time_str) ==
    [log |-> log, raised |-> fault # "none"]

\* "Process Response" up to the flush of the AI Therapist record: the block
\* warning (empty response.parts), the panel, the record, the flush. The
\* result is the log and whether an exception left the block.
ProcessResponse(log, result, fault, response_time_str) ==
    LET afterWarn == IF result = "Blocked"
                     THEN LogRecord(log, "BlockWarn", response_time_str)
                     ELSE log
        afterResp == LogRecord(afterWarn, "AIResponse", response_time_str)
    IN  CASE fault = "warnWrite" -> [log |-> log, raised |-> TRUE]
          [] fault = "display" -> [log |-> afterWarn, raised |-> TRUE]
          [] fault = "respWrite" -> [log |-> afterWarn, raised |-> TRUE]
          [] fault = "flush" -> [log |-> afterResp, raised |-> TRUE]
          [] OTHER -> [log |-> LogFlush(afterResp), raised |-> FALSE]

\* The except clauses that call messageTimestamps.pop().
Refunds(handler) ==
    handler \in {"ResourceExhausted", "InvalidArgument", "OtherError"}

\* A variant of Breaks with the `break` of the PermissionDenied clause
\* (commented out in the source) enabled.
BreaksOnPermissionDenied(handler) ==
    handler \in {"PermissionDenied", "NotFound", "ResourceExhausted"}

\* The except clauses that end with `break`.
Breaks(handler) == handler \in {"NotFound", "ResourceExhausted"}

\* The history of kept calls without the call of this turn.
Unkeep(h) == SubSeq(h, 1, Len(h) - 1)

\* chat.send_message returns or raises; the response is processed; an
\* exception is handled by the except clause of its class (an exception
\* raised while the response is processed by `except Exception`).
ApiReturns ==
    /\ pc = "InFlight"
    /\ \E result \in ApiResponses \cup ApiErrors, fault \in ProcessFaults,
          handlerFails \in BOOLEAN :
          LET isResponse == result \in ApiResponses
              done == IF isResponse
                      THEN ProcessResponse(chatLogFile, result, fault,
                                           TimestampOf(now))
                      ELSE [log |-> chatLogFile, raised |-> TRUE]
              handler == IF isResponse THEN "OtherError" ELSE result
              error_time_str == TimestampOf(now)
          IN  /\ IF isResponse THEN FaultApplies(fault, result, chatLogFile)
                 ELSE fault = "none"
              /\ handlerFails => (done.raised /\ HasChat)
              /\ apiResult' = result
              /\ handlerRaised' = handlerFails
              /\ IF ~done.raised
                 THEN /\ pc' = "TurnEnd"
                      /\ chatLogFile' = done.log
                      /\ UNCHANGED <<messageTimestamps, keptTimes, ended,
                                     fatalCause>>
                 ELSE /\ messageTimestamps' =
                            IF Refunds(handler) THEN Refund(messageTimestamps)
                            ELSE messageTimestamps
                      /\ keptTimes' = IF Refunds(handler) THEN Unkeep(keptTimes)
                                      ELSE keptTimes
                      /\ IF handlerFails
                         THEN /\ pc' = "OuterExcept"
                              /\ chatLogFile' = done.log
                              /\ UNCHANGED <<ended, fatalCause>>
                         ELSE /\ chatLogFile' = LogRecord(done.log, "SysError",
                                                          error_time_str)
                              /\ IF Breaks(handler)
                                 THEN /\ pc' = "Finalize"
                                      /\ ended' = "EndedFatal"
                                      /\ fatalCause' = handler
                                 ELSE /\ pc' = "TurnEnd"
                                      /\ UNCHANGED <<ended, fatalCause>>
    /\ UNCHANGED <<now, waitTime, waitStart, i, current_time_str, userInput,
                   queueBeforeAdmit, turnCall, queueAtAdmit, sentTimes>>
    /\ UNCHANGED startVars

\* The end of the loop body: `while True` starts the next iteration. What
\* the model remembers of the finished turn is forgotten.
NextIteration ==
    /\ pc = "TurnEnd"
    /\ pc' = "AwaitingInput"
    /\ chatLogFile' = NewTurn(chatLogFile)
    /\ turnCall' = FALSE
    /\ apiResult' = ""
    /\ handlerRaised' = FALSE
    /\ queueAtAdmit' = <<>>
    /\ queueBeforeAdmit' = <<>>
    /\ userInput' = Unbound
    /\ current_time_str' = TimestampOf(now)
    /\ waitTime' = 0
    /\ waitStart' = 0
    /\ UNCHANGED <<ended, fatalCause, now, messageTimestamps, i>>
    /\ UNCHANGED <<startVars, history>>

\* The outer `except Exception`: "An unexpected error occurred in the main
\* loop", SESSION ENDED DUE TO UNEXPECTED ERROR. When its own write raises,
\* the exception leaves main() after the finally block.
OuterExcept ==
    /\ pc = "OuterExcept"
    /\ \E writeFails \in BOOLEAN :
          /\ writeFails => HasChat
          /\ chatLogFile' = IF writeFails THEN chatLogFile
                            ELSE LogRecord(chatLogFile, "SysError",
                                           TimestampOf(now))
    /\ pc' = "Finalize"
    /\ ended' = "EndedFatal"
    /\ fatalCause' = "Unexpected"
    /\ UNCHANGED loopVars
    /\ UNCHANGED startVars

\* The finally block: end marker and close() of the pre-chat log, then of
\* the chat log. A write that raises leaves the block at that point.
Finalize ==
    /\ pc = "Finalize"
    /\ \E fault \in {"none", "preWrite", "chatWrite"} :
          LET end_time_str == TimestampOf(now) IN
          /\ fault = "preWrite" => preLogFile.file = "handle"
          /\ fault = "chatWrite" => HasChat
          /\ preLogFile' = IF preLogFile.file = "handle" /\ fault # "preWrite"
                           THEN LogClose(LogEndMark(preLogFile, end_time_str))
                           ELSE preLogFile
          /\ chatLogFile' = IF HasChat /\ fault = "none"
                            THEN LogClose(LogEndMark(chatLogFile, end_time_str))
                            ELSE chatLogFile
    /\ pc' = "Done"
    /\ UNCHANGED <<ended, fatalCause, logDirsCreated, modelInit>>
    /\ UNCHANGED <<loopVars, contextVars>>

\* Time passes while the program waits for the user or for the API.
Tick ==
    /\ pc \in {"AwaitingInput", "InFlight"}
    /\ \E d \in TickSteps :
          /\ now + d <= MaxTime
          /\ now' = now + d
    /\ UNCHANGED <<pc, ended, fatalCause, requestsPerMinute,
                   messageTimestamps, waitTime, waitStart, logDirsCreated,
                   preLogFile, chatLogFile, modelInit, useFileFirstPrompt, i,
                   current_time_str, userInput, queueBeforeAdmit, turnCall,
                   apiResult, handlerRaised, queueAtAdmit, sentTimes,
                   keptTimes>>
    /\ UNCHANGED contextVars

Next ==
    \/ SetupLogging
    \/ LoadStaticContext
    \/ InitializeAI
    \/ OpenChatLog
    \/ FirstPromptQuestion
    \/ InputReadFails
    \/ InputClosed
    \/ InputEmpty
    \/ InputExitCommand
    \/ SubmitTurn
    \/ WaitFinished
    \/ Interrupted
    \/ ApiReturns
    \/ NextIteration
    \/ OuterExcept
    \/ Finalize
    \/ Tick

Spec == Init /\ [][Next]_vars

(***************************************************************************)
(* The run with REQUESTS_PER_MINUTE set to 2 and turns one second apart    *)
(***************************************************************************)
InitTwoPerMinute ==
    /\ requestsPerMinute = 2
    /\ files \in LoopEnvironments
    /\ Entered
    /\ GitignoreIdle /\ LoaderIdle /\ ReplyIdle /\ CallersIdle

\* One second passes while the program waits for the user.
TickSecond ==
    /\ pc = "AwaitingInput"
    /\ now + 10 <= LastSubmit
    /\ now' = now + 10
    /\ UNCHANGED <<pc, ended, fatalCause, requestsPerMinute,
                   messageTimestamps, waitTime, waitStart, logDirsCreated,
                   preLogFile, chatLogFile, modelInit, useFileFirstPrompt, i,
                   current_time_str, userInput, queueBeforeAdmit, turnCall,
                   apiResult, handlerRaised, queueAtAdmit, sentTimes,
                   keptTimes>>
    /\ UNCHANGED contextVars

NextTwoPerMinute ==
    \/ SetupLogging
    \/ LoadStaticContext
    \/ InitializeAI
    \/ OpenChatLog
    \/ FirstPromptQuestion
    \/ InputReadFails
    \/ InputClosed
    \/ InputEmpty
    \/ InputExitCommand
    \/ SubmitTurn
    \/ WaitFinished
    \/ Interrupted
    \/ ApiReturns
    \/ NextIteration
    \/ OuterExcept
    \/ Finalize
    \/ TickSecond

SpecTwoPerMinute == InitTwoPerMinute /\ [][NextTwoPerMinute]_vars

\* The same run with the progress of the program stated: main() is one
\* thread, so a statement that can run does run (the end of a turn, the
\* except clause of the loop, the finally block); time.sleep() returns once
\* the clock has advanced by the wait; chat.send_message() returns or raises.
TurnProgress ==
    /\ WF_vars(WaitFinished)
    /\ WF_vars(ApiReturns)
    /\ WF_vars(NextIteration)
    /\ WF_vars(OuterExcept)
    /\ WF_vars(Finalize)

SpecTurnProgress ==
    InitTwoPerMinute /\ [][NextTwoPerMinute]_vars /\ TurnProgress

(***************************************************************************)
(* The run with REQUESTS_PER_MINUTE set to 2 and turns a tenth of a second *)
(* apart: after a wait the second entry of the deque is exactly 60 s old   *)
(***************************************************************************)
\* The user is at the prompt tenth by tenth of a second up to this time.
LastTenth == 3

\* A tenth of a second passes while the program waits for the user.
TickTenth ==
    /\ pc = "AwaitingInput"
    /\ now + 1 <= LastTenth
    /\ now' = now + 1
    /\ UNCHANGED <<pc, ended, fatalCause, requestsPerMinute,
                   messageTimestamps, waitTime, waitStart, logDirsCreated,
                   preLogFile, chatLogFile, modelInit, useFileFirstPrompt, i,
                   current_time_str, userInput, queueBeforeAdmit, turnCall,
                   apiResult, handlerRaised, queueAtAdmit, sentTimes,
                   keptTimes>>
    /\ UNCHANGED contextVars

NextTenths ==
    \/ SetupLogging
    \/ LoadStaticContext
    \/ InitializeAI
    \/ OpenChatLog
    \/ FirstPromptQuestion
    \/ InputReadFails
    \/ InputClosed
    \/ InputEmpty
    \/ InputExitCommand
    \/ SubmitTurn
    \/ WaitFinished
    \/ Interrupted
    \/ ApiReturns
    \/ NextIteration
    \/ OuterExcept
    \/ Finalize
    \/ TickTenth

SpecTenths == InitTwoPerMinute /\ [][NextTenths]_vars

(***************************************************************************)
(* LoadTherapyNotes and LoadPastConversations: one batch of files          *)
(*                                                                         *)
(* A file name is the sequence of its character codes. loader is a record: *)
(*   which      "notes" | "past"     the function that runs                *)
(*   directory  "None" | "notADirectory" | "found"                         *)
(*   fitzErrors whether the name fitz.errors.FileDataError of the first    *)
(*              except clause resolves in the installed PyMuPDF            *)
(*   listing    the files in the order glob() yields them                  *)
(*   pdfFiles   the sorted list the loop runs over                         *)
(*   at         index in pdfFiles of the file processed next               *)
(*   notesTexts the files whose section was appended, in order             *)
(*   processedCount, errorsEncountered   the two counters                  *)
(*   report     what the function printed and returned at its end          *)
(***************************************************************************)
IsDigit(c) == c \in 48..57

RECURSIVE DigitsOf(_)
\* str(n)
DigitsOf(n) ==
    IF n < 10 THEN <<48 + n>> ELSE DigitsOf(n \div 10) \o <<48 + (n % 10)>>

\* "note<n>.pdf" and "chat_log_<n>.txt"
NoteName(n) == <<110, 111, 116, 101>> \o DigitsOf(n) \o <<46, 112, 100, 102>>
ChatLogName(n) ==
    <<99, 104, 97, 116, 95, 108, 111, 103, 95>> \o DigitsOf(n)
        \o <<46, 116, 120, 116>>

RECURSIVE LeadDigits(_)
LeadDigits(name) ==
    IF name # <<>> /\ IsDigit(Head(name)) THEN 1 + LeadDigits(Tail(name)) ELSE 0

RECURSIVE LeadText(_)
LeadText(name) ==
    IF name # <<>> /\ ~IsDigit(Head(name)) THEN 1 + LeadText(Tail(name)) ELSE 0

RECURSIVE IntOf(_)
\* int(digits)
IntOf(digits) ==
    IF digits = <<>> THEN 0
    ELSE 10 * IntOf(SubSeq(digits, 1, Len(digits) - 1))
           + (digits[Len(digits)] - 48)

RECURSIVE NatsortKey(_)
\* The key natsort gives a string: its runs of digits as integers, the text
\* between them as text.
NatsortKey(name) ==
    IF name = <<>> THEN <<>>
    ELSE IF IsDigit(Head(name))
    THEN LET k == LeadDigits(name)
         IN  <<[num |-> TRUE, val |-> IntOf(SubSeq(name, 1, k)), text |-> <<>>]>>
                \o NatsortKey(SubSeq(name, k + 1, Len(name)))
    ELSE LET k == LeadText(name)
         IN  <<[num |-> FALSE, val |-> 0, text |-> SubSeq(name, 1, k)]>>
                \o NatsortKey(SubSeq(name, k + 1, Len(name)))

RECURSIVE TextLess(_, _)
\* a < b on str: code by code
TextLess(a, b) ==
    IF b = <<>> THEN FALSE
    ELSE IF a = <<>> THEN TRUE
    ELSE IF Head(a) # Head(b) THEN Head(a) < Head(b)
    ELSE TextLess(Tail(a), Tail(b))

ChunkLess(x, y) ==
    IF x.num /\ y.num THEN x.val < y.val
    ELSE IF ~x.num /\ ~y.num THEN TextLess(x.text, y.text)
    ELSE x.num

RECURSIVE KeyLess(_, _)
\* a < b on the key tuples
KeyLess(a, b) ==
    IF b = <<>> THEN FALSE
    ELSE IF a = <<>> THEN TRUE
    ELSE IF Head(a) # Head(b) THEN ChunkLess(Head(a), Head(b))
    ELSE KeyLess(Tail(a), Tail(b))

RECURSIVE InsertNatural(_, _)
InsertNatural(sorted, file) ==
    IF sorted = <<>> THEN <<file>>
    ELSE IF KeyLess(NatsortKey(file.name), NatsortKey(sorted[Len(sorted)].name))
    THEN InsertNatural(SubSeq(sorted, 1, Len(sorted) - 1), file)
            \o <<sorted[Len(sorted)]>>
    ELSE Append(sorted, file)

RECURSIVE InsertPlain(_, _)
InsertPlain(sorted, file) ==
    IF sorted = <<>> THEN <<file>>
    ELSE IF TextLess(file.name, sorted[Len(sorted)].name)
    THEN InsertPlain(SubSeq(sorted, 1, Len(sorted) - 1), file)
            \o <<sorted[Len(sorted)]>>
    ELSE Append(sorted, file)

RECURSIVE sorted(_)
\* A variant of natsorted: the builtin sorted() on the names.
sorted(paths) ==
    IF paths = <<>> THEN <<>>
    ELSE InsertPlain(sorted(SubSeq(paths, 1, Len(paths) - 1)),
                     paths[Len(paths)])

RECURSIVE natsorted(_)
\* natsort.natsorted(paths): a stable sort by NatsortKey. The paths of one
\* batch share their directory, so the key of the name decides.
natsorted(paths) ==
    IF paths = <<>> THEN <<>>
    ELSE InsertNatural(natsorted(SubSeq(paths, 1, Len(paths) - 1)),
                       paths[Len(paths)])

\* The numbers in the file names of a batch.
FileNumbers == {1, 2, 10}

\* What a file is: a PDF (or past log) with text, one without text, one that
\* raises when it is opened or read, and a directory entry that is no file.
FileKinds == {"text", "blank", "raises", "notFile"}

\* The directory entries matching the glob pattern: for each number no entry
\* or an entry of some kind.
Directories(which) ==
    {entries \in SUBSET [number : FileNumbers, kind : FileKinds] :
        \A a, b \in entries : a.number = b.number => a = b}

EntryFile(which, entry) ==
    [name |-> IF which = "notes" THEN NoteName(entry.number)
              ELSE ChatLogName(entry.number),
     number |-> entry.number,
     kind |-> entry.kind]

RECURSIVE Orders(_)
\* Every order in which glob() can yield a set of entries.
Orders(entries) ==
    IF entries = {} THEN {<<>>}
    ELSE UNION {{<<e>> \o rest : rest \in Orders(entries \ {e})} : e \in entries}

NewBatch(which, directory, fitzErrors, listing) ==
    [stage |-> "start", which |-> which, directory |-> directory,
     fitzErrors |-> fitzErrors, listing |-> listing, pdfFiles |-> <<>>,
     at |-> 1, notesTexts |-> <<>>, processedCount |-> 0,
     errorsEncountered |-> 0, report |-> "none"]

\* The checks on the directory, the glob and the sort, up to the loop.
ListFiles ==
    /\ loader.stage = "start"
    /\ LET found == IF loader.which = "past"
                    THEN \* [f for f in glob(...) if f.is_file()]
                         SelectSeq(loader.listing,
                                   LAMBDA f : f.kind # "notFile")
                    ELSE loader.listing
           ordered == natsorted(found)
       IN  loader' =
             IF loader.directory # "found"
             THEN [loader EXCEPT !.stage = "returned", !.report = "noDirectory"]
             ELSE IF ordered = <<>>
             THEN [loader EXCEPT !.stage = "returned", !.report = "noFiles"]
             ELSE [loader EXCEPT !.stage = "loop", !.pdfFiles = ordered]
    /\ UNCHANGED <<pc, ended, fatalCause, logDirsCreated, preLogFile,
                   chatLogFile, modelInit, files, combinedSystemInstruction,
                   gitignore, reply, callers>>
    /\ UNCHANGED <<now, requestsPerMinute, messageTimestamps, waitTime,
                   waitStart, useFileFirstPrompt, i, current_time_str,
                   userInput, queueBeforeAdmit, turnCall, apiResult,
                   handlerRaised, queueAtAdmit, sentTimes, keptTimes>>

\* One iteration of `for pdfPath in pdfFiles` / `for log_path in log_files`.
\* In LoadTherapyNotes an exception is matched against
\* fitz.errors.FileDataError first: when that name does not resolve, the
\* AttributeError leaves the function.
ProcessFile ==
    /\ loader.stage = "loop"
    /\ loader.at <= Len(loader.pdfFiles)
    /\ LET file == loader.pdfFiles[loader.at]
           next == [loader EXCEPT !.at = @ + 1]
       IN  loader' =
             CASE file.kind = "notFile" -> next
               [] file.kind = "text" ->
                    [next EXCEPT !.notesTexts = Append(@, file),
                                 !.processedCount = @ + 1]
               [] file.kind = "blank" -> next
               [] file.kind = "raises" ->
                    IF loader.which = "notes" /\ ~loader.fitzErrors
                    THEN [loader EXCEPT !.stage = "raised"]
                    ELSE [next EXCEPT !.errorsEncountered = @ + 1]
    /\ UNCHANGED <<pc, ended, fatalCause, logDirsCreated, preLogFile,
                   chatLogFile, modelInit, files, combinedSystemInstruction,
                   gitignore, reply, callers>>
    /\ UNCHANGED <<now, requestsPerMinute, messageTimestamps, waitTime,
                   waitStart, useFileFirstPrompt, i, current_time_str,
                   userInput, queueBeforeAdmit, turnCall, apiResult,
                   handlerRaised, queueAtAdmit, sentTimes, keptTimes>>

\* After the loop: "" with the warning when nothing was collected, else the
\* sections joined.
ReturnCombined ==
    /\ loader.stage = "loop"
    /\ loader.at > Len(loader.pdfFiles)
    /\ loader' = [loader EXCEPT
                    !.stage = "returned",
                    !.report = IF loader.notesTexts = <<>>
                               THEN "nothingExtracted" ELSE "combined"]
    /\ UNCHANGED <<pc, ended, fatalCause, logDirsCreated, preLogFile,
                   chatLogFile, modelInit, files, combinedSystemInstruction,
                   gitignore, reply, callers>>
    /\ UNCHANGED <<now, requestsPerMinute, messageTimestamps, waitTime,
                   waitStart, useFileFirstPrompt, i, current_time_str,
                   userInput, queueBeforeAdmit, turnCall, apiResult,
                   handlerRaised, queueAtAdmit, sentTimes, keptTimes>>

InitLoaders ==
    /\ requestsPerMinute = REQUESTS_PER_MINUTE
    /\ files \in {env \in LoopEnvironments : env.sysprompt.readable}
    /\ Entered
    /\ GitignoreIdle /\ ReplyIdle /\ CallersIdle
    /\ \E which \in {"notes", "past"},
          directory \in {"None", "notADirectory", "found"},
          fitzErrors \in BOOLEAN :
          \E entries \in Directories(which) :
             \E listing \in Orders({EntryFile(which, e) : e \in entries}) :
                /\ directory = "None" => which = "notes"
                /\ directory # "found" => listing = <<>>
                /\ (which = "past" \/ entries = {}) => fitzErrors
                /\ loader = NewBatch(which, directory, fitzErrors, listing)

NextLoaders ==
    \/ ListFiles
    \/ ProcessFile
    \/ ReturnCombined

SpecLoaders == InitLoaders /\ [][NextLoaders]_vars

(***************************************************************************)
(* EnsureGitignore: the .gitignore file and the runs over it               *)
(*                                                                         *)
(* Text is a sequence of character codes. A file is absent or holds its    *)
(* terminated lines and the unterminated text after the last newline.      *)
(* gitignore is a record:                                                  *)
(*   file     the file now                                                 *)
(*   before   the file when the last run started                           *)
(*   written  what the last run passed to f.write(), line by line          *)
(*   outcomes per run: "kept" (nothing to add), "updated", "skipped" (the  *)
(*            except clauses)                                              *)
(***************************************************************************)
sessionVars == <<pc, ended, fatalCause, now, requestsPerMinute,
                 messageTimestamps, waitTime, waitStart, logDirsCreated,
                 preLogFile, chatLogFile, modelInit, files,
                 combinedSystemInstruction, useFileFirstPrompt, i,
                 current_time_str, userInput, queueBeforeAdmit, turnCall,
                 apiResult, handlerRaised, queueAtAdmit, sentTimes, keptTimes>>

\* BACKGROUND_FILE.name, f"{HISTORY_DIR.name}/" and ".env"
ignorePatterns ==
    {<<98, 97, 99, 107, 103, 114, 111, 117, 110, 100, 46, 116, 120, 116>>,
     <<104, 105, 115, 116, 111, 114, 121, 47>>,
     <<46, 101, 110, 118>>}

\* "# Ignore patterns added by AI Therapist script"
FullHeader ==
    <<35, 32, 73, 103, 110, 111, 114, 101, 32, 112, 97, 116, 116, 101, 114,
      110, 115, 32, 97, 100, 100, 101, 100, 32, 98, 121, 32, 65, 73, 32, 84,
      104, 101, 114, 97, 112, 105, 115, 116, 32, 115, 99, 114, 105, 112, 116>>

\* "# Added by AI Therapist script"
AddedHeader ==
    <<35, 32, 65, 100, 100, 101, 100, 32, 98, 121, 32, 65, 73, 32, 84, 104,
      101, 114, 97, 112, 105, 115, 116, 32, 115, 99, 114, 105, 112, 116>>

IsSpace(c) == c \in {32, 9, 13, 10}

RECURSIVE lstrip(_)
lstrip(text) ==
    IF text # <<>> /\ IsSpace(Head(text)) THEN lstrip(Tail(text)) ELSE text

RECURSIVE rstrip(_)
rstrip(text) ==
    IF text # <<>> /\ IsSpace(text[Len(text)])
    THEN rstrip(SubSeq(text, 1, Len(text) - 1)) ELSE text

\* line.strip()
strip(text) == rstrip(lstrip(text))

\* `for line in f`: the terminated lines and, when there is one, the text
\* after the last newline.
LinesRead(file) ==
    IF file.tail = <<>> THEN file.lines ELSE Append(file.lines, file.tail)

\* {line.strip() for line in f if line.strip() and not
\*  line.strip().startswith("#")}
existingPatterns(file) ==
    {strip(LinesRead(file)[j]) : j \in
        {k \in 1..Len(LinesRead(file)) :
            /\ strip(LinesRead(file)[k]) # <<>>
            /\ Head(strip(LinesRead(file)[k])) # 35}}

\* A variant of patternsToAdd: every pattern, whatever the file holds.
allPatterns(file) == ignorePatterns

\* ignorePatterns - existingPatterns, and all of them when there is no file
patternsToAdd(file) ==
    IF file.isFile THEN ignorePatterns \ existingPatterns(file)
    ELSE ignorePatterns

RECURSIVE SortedPatterns(_)
\* sorted(list(patterns))
SortedPatterns(patterns) ==
    IF patterns = {} THEN <<>>
    ELSE LET least == CHOOSE p \in patterns :
                         \A q \in patterns \ {p} : TextLess(p, q)
         IN  <<least>> \o SortedPatterns(patterns \ {least})

\* The arguments of the f.write() calls of one update, cut at the newlines:
\* "\n<header>\n" and one "<pattern>\n" per pattern.
Writes(toAdd) ==
    <<<<>>, IF toAdd = ignorePatterns THEN FullHeader ELSE AddedHeader>>
        \o SortedPatterns(toAdd)

RECURSIVE WriteLines(_, _)
\* The file after text lines, each with its newline, are appended.
WriteLines(file, texts) ==
    IF texts = <<>> THEN file
    ELSE WriteLines([file EXCEPT !.lines = Append(@, file.tail \o Head(texts)),
                                 !.tail = <<>>],
                    Tail(texts))

\* open(GITIGNORE_FILE, "a") creates the file when there is none.
Opened(file) == [file EXCEPT !.isFile = TRUE]

NoFile == [isFile |-> FALSE, lines |-> <<>>, tail |-> <<>>]

\* Lines a .gitignore may hold: patterns, other patterns, comments, blank
\* lines, padded patterns.
OtherLines ==
    {<<42, 46, 112, 121, 99>>,         \* "*.pyc"
     <<32, 46, 101, 110, 118, 32>>,    \* " .env "
     <<35, 46, 101, 110, 118>>,        \* "#.env"
     <<32, 32>>,                       \* "  "
     <<104, 105, 115, 116, 111, 114, 121>>}   \* "history"

MaxLines == 2

GitignoreFiles ==
    {NoFile} \cup
    {[isFile |-> TRUE, lines |-> lines, tail |-> tail] :
        lines \in UNION {[1..n -> ignorePatterns \cup OtherLines] :
                            n \in 0..MaxLines},
        tail \in {<<>>} \cup ignorePatterns \cup OtherLines}

MaxRuns == 2

\* One call of EnsureGitignore. Reading the file, opening it for append and
\* writing to it can raise; the except clauses print and leave the file as
\* the failed call left it.
EnsureGitignore ==
    /\ gitignore.stage = "file"
    /\ Len(gitignore.outcomes) < MaxRuns
    /\ LET file == gitignore.file
           toAdd == patternsToAdd(file)
           texts == Writes(toAdd)
           ran(after, done, outcome) ==
               [gitignore EXCEPT !.file = after, !.before = file,
                                 !.written = done,
                                 !.outcomes = Append(@, outcome)]
       IN  \/ /\ file.isFile
              /\ gitignore' = ran(file, <<>>, "skipped")   \* the read raises
           \/ /\ toAdd = {}
              /\ gitignore' = ran(file, <<>>, "kept")
           \/ /\ toAdd # {}
              /\ \/ gitignore' = ran(file, <<>>, "skipped")  \* open raises
                 \/ \E n \in 0..(Len(texts) - 1) :           \* a write raises
                       gitignore' = ran(WriteLines(Opened(file),
                                                   SubSeq(texts, 1, n)),
                                        SubSeq(texts, 1, n), "skipped")
                 \/ gitignore' = ran(WriteLines(Opened(file), texts), texts,
                                     "updated")
    /\ UNCHANGED <<sessionVars, loader, reply, callers>>

InitGitignore ==
    /\ requestsPerMinute = REQUESTS_PER_MINUTE
    /\ files \in {env \in LoopEnvironments : env.sysprompt.readable}
    /\ Entered
    /\ LoaderIdle /\ ReplyIdle /\ CallersIdle
    /\ \E file \in GitignoreFiles :
          gitignore = [stage |-> "file", file |-> file, before |-> file,
                       written |-> <<>>, outcomes |-> <<>>]

NextGitignore == EnsureGitignore

SpecGitignore == InitGitignore /\ [][NextGitignore]_vars

(***************************************************************************)
(* "Process Response": a response of send_message and its classification   *)
(*                                                                         *)
(* A response has its content parts, the prompt_feedback attribute with    *)
(* its block_reason, and the candidates attribute with the finish_reason   *)
(* of each candidate; either attribute can be missing (hasattr is False).  *)
(* An enum value is its name; BLOCK_REASON_UNSPECIFIED is 0 and so falsy.  *)
(***************************************************************************)
Absent == [has |-> FALSE]

BlockReasons == {"BLOCK_REASON_UNSPECIFIED", "SAFETY", "OTHER"}

FinishReasons == {"STOP", "MAX_TOKENS", "SAFETY", "RECITATION"}

MaxCandidates == 2

Responses ==
    [parts : {<<>>, <<"text">>},
     prompt_feedback :
        {Absent} \cup {[has |-> TRUE, block_reason |-> b] : b \in BlockReasons},
     candidates :
        {Absent} \cup
        {[has |-> TRUE, list |-> list] :
            list \in UNION {[1..n -> FinishReasons] : n \in 0..MaxCandidates}}]

\* A variant of blockReason: the finish reason is looked at first.
blockReasonFinishFirst(response) ==
    IF /\ response.candidates.has
       /\ response.candidates.list # <<>>
       /\ response.candidates.list[1] # "STOP"
    THEN <<"Finish Reason: ", response.candidates.list[1]>>
    ELSE IF /\ response.prompt_feedback.has
            /\ response.prompt_feedback.block_reason # "BLOCK_REASON_UNSPECIFIED"
    THEN <<response.prompt_feedback.block_reason>>
    ELSE <<"Unknown">>

\* blockReason of a response without parts: the if / elif chain
blockReason(response) ==
    IF /\ response.prompt_feedback.has
       /\ response.prompt_feedback.block_reason # "BLOCK_REASON_UNSPECIFIED"
    THEN <<response.prompt_feedback.block_reason>>
    ELSE IF /\ response.candidates.has
            /\ response.candidates.list # <<>>
            /\ response.candidates.list[1] # "STOP"
    THEN <<"Finish Reason: ", response.candidates.list[1]>>
    ELSE <<"Unknown">>

\* `if not response.parts:` with the warning text, else the response text.
ClassifyResponse ==
    /\ reply.stage = "response"
    /\ reply' =
         IF reply.response.parts = <<>>
         THEN [reply EXCEPT
                 !.stage = "processed",
                 !.outcome = "Blocked",
                 !.warningMsgContent =
                     <<"AI response empty/blocked. Reason: ">>
                        \o blockReason(reply.response)]
         ELSE [reply EXCEPT !.stage = "processed", !.outcome = "Delivered"]
    /\ UNCHANGED <<sessionVars, gitignore, loader, callers>>

InitClassify ==
    /\ requestsPerMinute = REQUESTS_PER_MINUTE
    /\ files \in {env \in LoopEnvironments : env.sysprompt.readable}
    /\ Entered
    /\ GitignoreIdle /\ LoaderIdle /\ CallersIdle
    /\ \E response \in Responses :
          reply = [stage |-> "response", response |-> response,
                   outcome |-> "", warningMsgContent |-> <<>>]

NextClassify == ClassifyResponse

SpecClassify == InitClassify /\ [][NextClassify]_vars

(***************************************************************************)
(* The rate-limit check run by two callers on one deque                    *)
(*                                                                         *)
(* Each caller runs the statements of "Rate Limiting Check" and the append *)
(* of "Send Message" in the order of the code: evict, check (and compute   *)
(* the wait), sleep and evict again, append. callers is a record:          *)
(*   atomic  whether the statements run as one critical section            *)
(*   lock    the caller inside the critical section, 0 when none           *)
(*   at      per caller, the statement it runs next                        *)
(*   wakeAt  per caller, the time its sleep ends                           *)
(*   sent    number of appends so far                                      *)
(***************************************************************************)
Callers == {1, 2}

MaxAdmissions == 4

\* What the rate-limit check does not touch.
besideCallers == <<pc, ended, fatalCause, requestsPerMinute, waitTime,
                   waitStart, logDirsCreated, preLogFile, chatLogFile,
                   modelInit, files, combinedSystemInstruction,
                   useFileFirstPrompt, i, current_time_str, userInput,
                   queueBeforeAdmit, turnCall, apiResult, handlerRaised,
                   queueAtAdmit, sentTimes, keptTimes, gitignore, loader,
                   reply>>

\* A caller may run its next statement unless another caller is inside the
\* critical section.
MayStep(c) == ~callers.atomic \/ callers.lock \in {0, c}

\* A variant of LockAfter: the critical section ends with the check, before
\* the append.
LockAfterUntilCheck(c, statement) ==
    IF callers.atomic /\ statement = "evict" THEN c ELSE 0

\* The critical section spans the check and the append: it is entered with
\* the first eviction and left with the append.
LockAfter(c, statement) ==
    IF callers.atomic /\ statement # "append" THEN c ELSE 0

\* currentTime = time.time(); while ...: messageTimestamps.popleft()
CallerEvict(c) ==
    /\ callers.stage = "run"
    /\ callers.at[c] = "evict"
    /\ callers.sent < MaxAdmissions
    /\ MayStep(c)
    /\ messageTimestamps' = Evict(messageTimestamps, now)
    /\ callers' = [callers EXCEPT !.at[c] = "check",
                                  !.lock = LockAfter(c, "evict")]
    /\ UNCHANGED <<now, besideCallers>>

\* if len(messageTimestamps) >= REQUESTS_PER_MINUTE: waitTime = ...
CallerCheck(c) ==
    /\ callers.stage = "run"
    /\ callers.at[c] = "check"
    /\ MayStep(c)
    /\ callers' =
         IF RateLimited(messageTimestamps)
         THEN [callers EXCEPT
                 !.at[c] = "sleep",
                 !.wakeAt[c] = now + WaitTimeOf(messageTimestamps, now),
                 !.lock = LockAfter(c, "check")]
         ELSE [callers EXCEPT !.at[c] = "append",
                              !.lock = LockAfter(c, "check")]
    /\ UNCHANGED <<now, messageTimestamps, besideCallers>>

\* The sleep ends, at the computed time or later; currentTime = time.time()
\* and the second eviction.
CallerWake(c) ==
    /\ callers.stage = "run"
    /\ callers.at[c] = "sleep"
    /\ MayStep(c)
    /\ now' = IF now < callers.wakeAt[c] THEN callers.wakeAt[c] ELSE now
    /\ messageTimestamps' = Evict(messageTimestamps, now')
    /\ callers' = [callers EXCEPT !.at[c] = "append",
                                  !.lock = LockAfter(c, "wake")]
    /\ UNCHANGED besideCallers

\* messageTimestamps.append(time.time())
CallerAppend(c) ==
    /\ callers.stage = "run"
    /\ callers.at[c] = "append"
    /\ MayStep(c)
    /\ messageTimestamps' = Append(messageTimestamps, now)
    /\ callers' = [callers EXCEPT !.at[c] = "evict",
                                  !.sent = @ + 1,
                                  !.lock = LockAfter(c, "append")]
    /\ UNCHANGED <<now, besideCallers>>

\* Time passes between the statements of the callers.
CallersTick ==
    /\ callers.stage = "run"
    /\ \E d \in TickSteps :
          /\ now + d <= MaxTime
          /\ now' = now + d
    /\ UNCHANGED <<messageTimestamps, callers, besideCallers>>

InitTwoCallers ==
    /\ requestsPerMinute \in {1, 2}
    /\ files \in {env \in LoopEnvironments : env.sysprompt.readable}
    /\ Entered
    /\ GitignoreIdle /\ LoaderIdle /\ ReplyIdle
    /\ \E atomic \in BOOLEAN :
          callers = [stage |-> "run", atomic |-> atomic, lock |-> 0,
                     at |-> [c \in Callers |-> "evict"],
                     wakeAt |-> [c \in Callers |-> 0], sent |-> 0]

NextTwoCallers ==
    \/ \E c \in Callers : CallerEvict(c)
    \/ \E c \in Callers : CallerCheck(c)
    \/ \E c \in Callers : CallerWake(c)
    \/ \E c \in Callers : CallerAppend(c)
    \/ CallersTick

SpecTwoCallers == InitTwoCallers /\ [][NextTwoCallers]_vars

(***************************************************************************)
(* The startup of main() over every combination of context sources, up to  *)
(* the assembled system instruction.                                       *)
(***************************************************************************)
InitContext ==
    /\ requestsPerMinute = REQUESTS_PER_MINUTE
    /\ files \in Environments
    /\ Entered
    /\ GitignoreIdle /\ LoaderIdle /\ ReplyIdle /\ CallersIdle

NextContext ==
    \/ SetupLogging
    \/ LoadStaticContext

SpecContext == InitContext /\ [][NextContext]_vars

(***************************************************************************)
(* Properties                                                              *)
(***************************************************************************)
\* Number of timestamps of q that are at most 60 s old at time t.
RecentCount(q, t) == Cardinality({k \in DOMAIN q : t - q[k] <= Window})

\* No 60 s interval ending at a call of the history h holds more than
\* REQUESTS_PER_MINUTE calls of h.
WindowCap(h) ==
    \A k \in DOMAIN h :
        Cardinality({j \in 1..k : h[k] - h[j] <= Window}) <= REQUESTS_PER_MINUTE

\* Number of turn outcome records (AI Therapist record or System Error
\* record) among the records of the current turn.
OutcomeCount(recs) ==
    Cardinality({k \in DOMAIN recs : recs[k] \in {"AIResponse", "SysError"}})

\* The log files main() holds a handle of.
HeldLogs == {log \in {preLogFile, chatLogFile} : log.file = "handle"}

\* C1: at the moment a call timestamp is appended, the timestamps of the
\* deque that are at most 60 s old, the new one included, number at most
\* REQUESTS_PER_MINUTE.
C1_RateCapAtAdmit ==
    turnCall =>
        RecentCount(queueAtAdmit, queueAtAdmit[Len(queueAtAdmit)])
            <= REQUESTS_PER_MINUTE

\* A call admitted after a rate-limit wait that fills the deque to the cap.
C1_Witness ==
    /\ pc = "InFlight"
    /\ waitTime > 0
    /\ Len(queueAtAdmit) = REQUESTS_PER_MINUTE

\* C2 (as claimed): in any 60 s interval the calls sent to the API number at
\* most REQUESTS_PER_MINUTE, refunded calls included.
C2_SentCap == WindowCap(sentTimes)

\* C2 (amended): in any 60 s interval the calls sent to the API whose credit
\* was not refunded number at most REQUESTS_PER_MINUTE.
C2_KeptCap == WindowCap(keptTimes)

\* More calls than the cap were sent within 60 s, some refunded, and the
\* kept ones fill the cap.
C2_Witness ==
    /\ Len(sentTimes) > REQUESTS_PER_MINUTE
    /\ Len(keptTimes) = REQUESTS_PER_MINUTE
    /\ sentTimes[Len(sentTimes)] - sentTimes[1] <= Window

\* C3: an admitted call leaves exactly one turn outcome in the chat log, at
\* the end of its turn and at the end of the process.
C3_ExactlyOneOutcome ==
    (turnCall /\ HasChat /\ pc \in {"TurnEnd", "Done"})
        => OutcomeCount(chatLogFile.recs) = 1

\* C4: when the process has ended on a route that starts at or after the
\* first-prompt question, every log file main() holds has one timestamped
\* end marker and was closed exactly once.
C4_ClosedOnEveryExit ==
    (pc = "Done" /\ modelInit) =>
        \A log \in HeldLogs :
            log.stream = "closed" /\ log.endMarks = 1 /\ log.closes = 1

\* C5 (as claimed): when startup ends on a missing system prompt, neither
\* log file exists and the model was never initialised.
C5_NoLogAtAbort ==
    fatalCause = "SystemPrompt" =>
        /\ preLogFile.stream = "absent"
        /\ chatLogFile.stream = "absent"
        /\ ~modelInit

\* C5 (amended): when startup ends on a missing system prompt, the process
\* is over, the chat log file does not exist and the model was never
\* initialised.
C5_NoChatLogNoModelAtAbort ==
    fatalCause = "SystemPrompt" =>
        /\ pc = "Done"
        /\ chatLogFile.stream = "absent"
        /\ ~modelInit

\* Startup aborted on a missing system prompt with the pre-chat log on disk,
\* written and closed.
C5_Witness ==
    /\ ended = "StartupFatal"
    /\ fatalCause = "SystemPrompt"
    /\ preLogFile.stream = "closed"
    /\ preLogFile.recs = <<"Fatal">>

\* C6: after a failed call was handled, the deque is what it was before the
\* call's timestamp was appended.
C6_FailureRefunded ==
    (turnCall /\ apiResult \in ApiErrors /\ pc \in {"TurnEnd", "Finalize"})
        => messageTimestamps = SubSeq(queueAtAdmit, 1, Len(queueAtAdmit) - 1)

\* C7: at the end of a turn whose call returned a response (with or without
\* content parts), the deque still holds the timestamp appended for it.
C7_ResponseKeepsCredit ==
    (pc = "TurnEnd" /\ apiResult \in ApiResponses)
        => messageTimestamps = queueAtAdmit

C9_FatalOnlyOnApiFatal ==
    ended = "EndedFatal" => fatalCause \in {"NotFound", "ResourceExhausted"}

\* C10: whenever the program blocks (input, rate-limit sleep, API call), no
\* record written to a log file is unflushed.
C10_FlushedWhenBlocked ==
    pc \in {"AwaitingInput", "RateLimitWait", "InFlight"} =>
        \A log \in HeldLogs : ~log.unflushed

\* C11: the step that reads an empty or whitespace-only input, from the
\* console or from prompt.txt, leaves the loop at the input prompt and changes
\* neither the chat log nor the deque, and sends no call.
C11_BlankInputNoOp ==
    [][(pc = "AwaitingInput" /\ userInput' # userInput
            /\ Strip(userInput') = "")
        => /\ pc' = "AwaitingInput"
           /\ UNCHANGED <<messageTimestamps, chatLogFile, sentTimes>>]_vars

\* C12: the step that reads an input which, surrounding whitespace apart, is
\* quit or exit in any letter case ends the session by command (unless the
\* marker write raises) without a You record, a new timestamp or a call; the
\* step that reads any other non-blank input forwards it as a turn.
C12_ExitOrForward ==
    [][(pc = "AwaitingInput" /\ userInput' # userInput
            /\ Strip(userInput') # "")
        => IF Lower(Strip(userInput')) \in {"quit", "exit"}
           THEN /\ pc' \in {"Finalize", "OuterExcept"}
                /\ pc' = "Finalize" => ended' = "EndedByCommand"
                /\ UNCHANGED <<messageTimestamps, sentTimes>>
                /\ \A k \in DOMAIN chatLogFile'.recs :
                        chatLogFile'.recs[k] # "You"
           ELSE pc' \in {"RateLimitWait", "InFlight", "OuterExcept"}]_vars

\* The current turn's call was admitted and its timestamp was popped again.
Refunded == turnCall /\ Len(messageTimestamps) = Len(queueAtAdmit) - 1

\* C13 (as claimed): after a refund that follows an admit, the deque is what
\* it was when the turn reached the rate-limit check, expired entries included.
C13_RefundRestoresQueue == Refunded => messageTimestamps = queueBeforeAdmit

\* C13 (amended): after a refund that follows an admit, the deque is what it
\* was when the turn reached the rate-limit check without the entries that
\* were older than 60 s when the call's timestamp was appended.
C13_RefundRestoresLiveQueue ==
    Refunded =>
        messageTimestamps =
            Evict(queueBeforeAdmit, queueAtAdmit[Len(queueAtAdmit)])

\* A refund after an admit that evicted an expired entry and kept a live one.
C13_Witness ==
    /\ Refunded
    /\ Len(queueBeforeAdmit) > Len(messageTimestamps)
    /\ messageTimestamps # <<>>

\* C14: a turn that finds requestsPerMinute timestamps left in the deque after
\* the eviction waits 60 s - (currentTime - oldest) + 0.1 s and appends its
\* timestamp only after that wait; a turn that finds fewer does not wait. With
\* two requests per minute and turns at 0 s, 1 s and 2 s, the third turn waits
\* 58.1 s and its call is not sent before 60 s.
C14_WaitBeforeAdmit ==
    /\ pc = "RateLimitWait" =>
          /\ ~turnCall
          /\ Len(messageTimestamps) = requestsPerMinute
          /\ waitTime =
                Window - (waitStart - Head(messageTimestamps)) + Epsilon
    /\ turnCall =>
          LET admitted == queueAtAdmit[Len(queueAtAdmit)]
              checked == IF waitTime > 0 THEN waitStart ELSE admitted
              live == Evict(queueBeforeAdmit, checked)
          IN  IF Len(live) >= requestsPerMinute
              THEN /\ waitTime = Window - (checked - Head(live)) + Epsilon
                   /\ admitted >= checked + waitTime
              ELSE waitTime = 0
    /\ (requestsPerMinute = 2 /\ queueBeforeAdmit = <<0, 10>>
            /\ \/ waitStart = 20
               \/ turnCall /\ waitTime = 0
                    /\ queueAtAdmit[Len(queueAtAdmit)] = 20) =>
          /\ waitTime = 580 + Epsilon
          /\ turnCall => queueAtAdmit[Len(queueAtAdmit)] >= Window

\* Two requests per minute, calls at 0 s and 1 s: the call of the turn
\* submitted at 2 s is sent at 60.1 s, after a wait of 58.1 s.
C14_Witness ==
    /\ requestsPerMinute = 2
    /\ queueBeforeAdmit = <<0, 10>>
    /\ waitStart = 20
    /\ waitTime = 581
    /\ pc = "InFlight"
    /\ queueAtAdmit = <<10, 601>>

\* The timestamps of h never decrease.
NonDecreasing(h) == \A j, k \in DOMAIN h : j <= k => h[j] <= h[k]

\* C15: in each log file the timestamps written, from the start marker
\* through the You, System, AI Therapist and System Error records to the end
\* marker, never decrease in file order.
C15_TimestampsNonDecreasing ==
    NonDecreasing(preLogFile.stamps) /\ NonDecreasing(chatLogFile.stamps)

\* A turn whose input arrived seconds after the top of the loop was passed,
\* was delayed by a rate-limit wait and was answered: its You, System and AI
\* Therapist records are in the chat log with increasing timestamps.
C15_Witness ==
    /\ pc = "TurnEnd"
    /\ waitTime > 0
    /\ apiResult = "Delivered"
    /\ chatLogFile.recs = <<"You", "RateWait", "WaitDone", "AIResponse">>
    /\ current_time_str < TimestampOf(waitStart)
    /\ chatLogFile.stamps[1] < chatLogFile.stamps[2]
    /\ chatLogFile.stamps[2] < chatLogFile.stamps[Len(chatLogFile.stamps)]

(***************************************************************************)
(* Reading the sections back from the assembled text                       *)
(***************************************************************************)
SectionOpeners ==
    {"--- USER BACKGROUND INFORMATION ---",
     "--- BEGIN THERAPY NOTES HISTORY ---", "--- THERAPY NOTES HISTORY ---",
     "--- BEGIN PAST CONVERSATION HISTORY ---",
     "--- PAST CONVERSATION HISTORY ---",
     "--- IMPORTANT REMINDERS ---"}

SectionClosers ==
    {"--- END USER BACKGROUND INFORMATION ---",
     "--- END THERAPY NOTES HISTORY ---",
     "--- END PAST CONVERSATION HISTORY ---",
     "--- END IMPORTANT REMINDERS ---"}

SectionOf(marker) ==
    CASE marker \in {"--- USER BACKGROUND INFORMATION ---",
                     "--- END USER BACKGROUND INFORMATION ---"} -> "background"
      [] marker \in {"--- BEGIN THERAPY NOTES HISTORY ---",
                     "--- THERAPY NOTES HISTORY ---",
                     "--- END THERAPY NOTES HISTORY ---"} -> "notes"
      [] marker \in {"--- BEGIN PAST CONVERSATION HISTORY ---",
                     "--- PAST CONVERSATION HISTORY ---",
                     "--- END PAST CONVERSATION HISTORY ---"} -> "past"
      [] marker \in {"--- IMPORTANT REMINDERS ---",
                     "--- END IMPORTANT REMINDERS ---"} -> "reminders"

IsOpener(line) == line \in SectionOpeners
IsCloser(line) == line \in SectionClosers
IsMarker(line) == IsOpener(line) \/ IsCloser(line)

\* The sections of a text in the order their markers open and close them.
MarkerTrace(text) ==
    LET markers == SelectSeq(text, IsMarker)
    IN  [k \in DOMAIN markers |->
            <<IF IsOpener(markers[k]) THEN "open" ELSE "close",
              SectionOf(markers[k])>>]

\* The lines before the first section opens.
Preamble(text) ==
    LET first == CHOOSE k \in DOMAIN text :
                     /\ IsOpener(text[k])
                     /\ \A j \in 1..(k - 1) : ~IsOpener(text[j])
    IN  SubSeq(text, 1, first - 1)

\* The lines between the opening and the closing marker of a section.
SectionBody(text, section) ==
    LET opened == CHOOSE k \in DOMAIN text :
                      IsOpener(text[k]) /\ SectionOf(text[k]) = section
        closed == CHOOSE k \in DOMAIN text :
                      IsCloser(text[k]) /\ SectionOf(text[k]) = section
    IN  SubSeq(text, opened + 1, closed - 1)

\* text occurs in body as consecutive lines
Holds(body, text) ==
    \E k \in 0..(Len(body) - Len(text)) :
        SubSeq(body, k + 1, k + Len(text)) = text

Assembled == combinedSystemInstruction # <<>>

\* C16: whatever combination of optional sources is present, the assembled
\* context is the five sections base prompt, user background, notes, past
\* conversations, reminders in that order: the prompt under its date line
\* comes first, the reminders close the text, a missing background file, an
\* empty notes result and an empty past-conversation result each leave their
\* placeholder text in their own section, a present source leaves its text
\* there, and no missing optional source stops the startup.
C16_FiveSectionsInOrder ==
    /\ Assembled =>
          /\ Len(SystemInstructionPartsOf(files)) = 5
          /\ MarkerTrace(combinedSystemInstruction) =
                <<<<"open", "background">>, <<"close", "background">>,
                  <<"open", "notes">>, <<"close", "notes">>,
                  <<"open", "past">>, <<"close", "past">>,
                  <<"open", "reminders">>, <<"close", "reminders">>>>
          /\ Preamble(combinedSystemInstruction) =
                <<"Current Date and Time: <formattedDateTime>", "">>
                   \o files.sysprompt.text \o <<"">>
          /\ combinedSystemInstruction[Len(combinedSystemInstruction)] =
                "--- END IMPORTANT REMINDERS ---"
          /\ Holds(SectionBody(combinedSystemInstruction, "background"),
                   IF files.background.readable THEN files.background.text
                   ELSE <<"No user background information was loaded.">>)
          /\ Holds(SectionBody(combinedSystemInstruction, "notes"),
                   IF files.notes # Empty THEN files.notes
                   ELSE <<"No therapy notes loaded.">>)
          /\ Holds(SectionBody(combinedSystemInstruction, "past"),
                   IF files.past # Empty THEN files.past
                   ELSE <<"No past conversation history loaded.">>)
          /\ Holds(SectionBody(combinedSystemInstruction, "reminders"),
                   <<"1. Role: ...", "2. Ethics: ...", "3. Crisis: ...",
                     "4. Context: ...">>)
    /\ (files.sysprompt.readable
          /\ pc \notin {"SetupLogging", "LoadStaticContext"}
          /\ fatalCause # "ApiKey") => Assembled
    /\ ended = "StartupFatal" =>
          fatalCause = "ApiKey" \/ ~files.sysprompt.readable

C16_Witness ==
    /\ Assembled
    /\ pc = "InitializeAI"
    /\ ~files.background.readable
    /\ files.notes = Empty
    /\ files.past # Empty

\* The records written to the chat log for the outcome of this turn's call.
OutcomeRecords ==
    SelectSeq(chatLogFile.recs,
              LAMBDA kind : kind \in {"BlockWarn", "AIResponse", "SysError"})

\* C17: a turn whose response has no content parts goes back to the input
\* wait, and with a chat log its records are the System warning carrying the
\* block reason followed by the AI Therapist record of the apology shown to
\* the user, one each and no System Error record.
C17_BlockedIsSystemEvent ==
    apiResult = "Blocked" =>
        /\ pc = "TurnEnd"
        /\ HasChat => OutcomeRecords = <<"BlockWarn", "AIResponse">>

Roles == {"You", "AI Therapist", "System"}

\* C19: every record in the chat log other than a session boundary marker
\* starts with a timestamp and has the role You, AI Therapist or System,
\* whichever path wrote it.
C19_RecordsStampedWithKnownRole ==
    \A k \in DOMAIN chatLogFile.recs :
        LET record == RecordFormat(chatLogFile.recs[k])
        IN  ~record.marker => record.stamped /\ record.role \in Roles

\* C20: when startup is given up because the system prompt is missing or
\* the model cannot be initialized, no input was read, no call timestamp was
\* appended, no chat log file was created, and a pre-chat log file that was
\* opened has been closed exactly once.
C20_AbortBeforeAnyTurn ==
    fatalCause \in {"SystemPrompt", "AIInit"} =>
        /\ pc = "Done"
        /\ userInput = Unbound
        /\ i = 0
        /\ messageTimestamps = <<>>
        /\ sentTimes = <<>>
        /\ chatLogFile.stream = "absent"
        /\ preLogFile.stream # "absent" =>
              preLogFile.stream = "closed" /\ preLogFile.closes = 1

(***************************************************************************)
(* The session without logs as the twin of a session with logs             *)
(***************************************************************************)
\* Everything but the log streams: position in main(), clock, input, deque,
\* calls sent and kept, outcome of the turn, way the session ended.
WithoutLogs ==
    <<pc, ended, fatalCause, now, requestsPerMinute, messageTimestamps,
      waitTime, waitStart, modelInit, files, combinedSystemInstruction,
      useFileFirstPrompt, i, current_time_str, userInput, queueBeforeAdmit,
      turnCall, apiResult, handlerRaised, queueAtAdmit, sentTimes, keptTimes,
      partVars>>

\* The same point of the session that could not create its directories.
DropLogs ==
    /\ logDirsCreated' = FALSE
    /\ preLogFile' = NoLog
    /\ chatLogFile' = NoLog
    /\ UNCHANGED WithoutLogs

\* A step in which a write to a log raised where nothing raises without a
\* log: the startup gave up with an exception, the input or the wait ended
\* in the outer handler, or the write of an except clause raised.
WriteRaises ==
    \/ pc \in {"LoadStaticContext", "InitializeAI"} /\ ended' = "Crashed"
    \/ /\ pc = "AwaitingInput"
       /\ pc' = "OuterExcept"
       /\ ~(FileRoute /\ userInput' = userInput)
    \/ pc = "RateLimitWait" /\ pc' = "OuterExcept"
    \/ pc = "InFlight" /\ pc' = "OuterExcept"

\* C18: every step of a session in which no log write raises is, with the
\* logs left out, a step of the session that runs without logs: from the
\* same position, clock, input and API result both reach the same loop
\* state, deque, calls and turn outcome.
C18_SameStepWithoutLogs ==
    [][~WriteRaises =>
          \E after \in {WithoutLogs'} :
              ENABLED (DropLogs /\
                         (ENABLED (NextTwoPerMinute /\ WithoutLogs' = after))')]_vars

C18_Witness ==
    /\ pc = "TurnEnd"
    /\ logDirsCreated
    /\ preLogFile.recs = <<"Context">>
    /\ chatLogFile.recs = <<"You", "RateWait", "WaitDone", "AIResponse">>
    /\ apiResult = "Delivered"

Ascending(batch) ==
    \A j, k \in 1..Len(batch) : j < k => batch[j].number < batch[k].number

\* C21: the files of a batch are processed in natural order of their names:
\* by the number embedded in the name (note1, note2, note10), in both
\* loaders, whatever order the directory listing yields; so the sections
\* collected are in that order too.
C21_NaturalOrder ==
    loader.stage \in {"loop", "raised", "returned"} =>
        /\ Ascending(loader.pdfFiles)
        /\ Ascending(loader.notesTexts)
        /\ \A j \in 1..Len(loader.notesTexts) :
              \E k \in 1..(loader.at - 1) :
                  loader.pdfFiles[k] = loader.notesTexts[j]

\* note10 listed before note2 and note1, all three with text, and all three
\* processed: the sections are those of note1, note2, note10.
C21_Witness ==
    /\ loader.stage = "returned"
    /\ loader.which = "notes"
    /\ [j \in 1..Len(loader.listing) |-> loader.listing[j].number] = <<10, 2, 1>>
    /\ [j \in 1..Len(loader.notesTexts) |-> loader.notesTexts[j].name]
          = <<NoteName(1), NoteName(2), NoteName(10)>>

Processed == SubSeq(loader.pdfFiles, 1, loader.at - 1)

OfKind(batch, kind) == SelectSeq(batch, LAMBDA f : f.kind = kind)

\* C26: in a batch a file without text and a file that raises are each
\* skipped and the files after it are still processed: no exception leaves
\* the loader, the sections collected are exactly those of the processed
\* files that yielded text, in order, the error counter is the number of
\* processed files that raised, the loader returns only after the last file,
\* and it reports that nothing could be extracted only when no file yielded
\* text.
C26_BatchSurvivesBadFiles ==
    /\ loader.stage # "raised"
    /\ loader.stage \in {"loop", "returned"} =>
          /\ loader.notesTexts = OfKind(Processed, "text")
          /\ loader.processedCount = Len(OfKind(Processed, "text"))
          /\ loader.errorsEncountered = Len(OfKind(Processed, "raises"))
    /\ (loader.stage = "returned" /\ loader.pdfFiles # <<>>) =>
          /\ loader.at = Len(loader.pdfFiles) + 1
          /\ loader.report = "nothingExtracted"
                <=> OfKind(loader.pdfFiles, "text") = <<>>
          /\ loader.report = "combined"
                <=> OfKind(loader.pdfFiles, "text") # <<>>

RECURSIVE Flatten(_)
Flatten(lines) ==
    IF lines = <<>> THEN <<>> ELSE Head(lines) \o <<10>> \o Flatten(Tail(lines))

\* The characters of a file.
Chars(file) == Flatten(file.lines) \o file.tail

IsPrefix(a, b) == Len(a) <= Len(b) /\ SubSeq(b, 1, Len(a)) = a

Completed(outcome) == outcome \in {"kept", "updated"}

Runs == Len(gitignore.outcomes)

\* The last run only appended, and no line it wrote is a pattern the file
\* held before.
OnlyAppendedMissing ==
    /\ IsPrefix(Chars(gitignore.before), Chars(gitignore.file))
    /\ Chars(gitignore.file) =
          Chars(gitignore.before) \o Flatten(gitignore.written)
    /\ \A j \in 1..Len(gitignore.written) :
          gitignore.written[j] \notin existingPatterns(gitignore.before)

BlockReasonSet ==
    /\ reply.response.prompt_feedback.has
    /\ reply.response.prompt_feedback.block_reason # "BLOCK_REASON_UNSPECIFIED"

HasFirstCandidate ==
    /\ reply.response.candidates.has
    /\ reply.response.candidates.list # <<>>

ReasonShown == Tail(reply.warningMsgContent)

\* C25 as stated: without content parts the reason is the block reason when
\* set, otherwise the finish reason of the first candidate, otherwise
\* "Unknown"; with content parts the response is not Blocked.
C25_FallbackChainAnyFinish ==
    reply.stage = "processed" =>
        IF reply.response.parts # <<>> THEN reply.outcome # "Blocked"
        ELSE /\ reply.outcome = "Blocked"
             /\ BlockReasonSet =>
                   ReasonShown = <<reply.response.prompt_feedback.block_reason>>
             /\ (~BlockReasonSet /\ HasFirstCandidate) =>
                   ReasonShown[Len(ReasonShown)] = reply.response.candidates.list[1]
             /\ (~BlockReasonSet /\ ~HasFirstCandidate) =>
                   ReasonShown = <<"Unknown">>

\* C25 (amended): without content parts the response is Blocked and the
\* reason is the name of the block reason when one is set; otherwise
\* "Finish Reason: " and the finish reason of the first candidate when there
\* is one and it is not STOP; otherwise "Unknown". With content parts the
\* response is not Blocked.
C25_FallbackChain ==
    reply.stage = "processed" =>
        IF reply.response.parts # <<>> THEN reply.outcome # "Blocked"
        ELSE /\ reply.outcome = "Blocked"
             /\ BlockReasonSet =>
                   ReasonShown = <<reply.response.prompt_feedback.block_reason>>
             /\ (~BlockReasonSet /\ HasFirstCandidate
                   /\ reply.response.candidates.list[1] # "STOP") =>
                   ReasonShown = <<"Finish Reason: ",
                                   reply.response.candidates.list[1]>>
             /\ (~BlockReasonSet /\ HasFirstCandidate
                   /\ reply.response.candidates.list[1] = "STOP") =>
                   ReasonShown = <<"Unknown">>
             /\ (~BlockReasonSet /\ ~HasFirstCandidate) =>
                   ReasonShown = <<"Unknown">>

\* No parts, the block reason unspecified, two candidates: the reason is the
\* finish reason of the first.
C25_Witness ==
    /\ reply.stage = "processed"
    /\ reply.response.parts = <<>>
    /\ reply.response.prompt_feedback =
          [has |-> TRUE, block_reason |-> "BLOCK_REASON_UNSPECIFIED"]
    /\ reply.response.candidates =
          [has |-> TRUE, list |-> <<"MAX_TOKENS", "SAFETY">>]
    /\ reply.warningMsgContent =
          <<"AI response empty/blocked. Reason: ", "Finish Reason: ",
            "MAX_TOKENS">>

\* More timestamps than the cap lie within 60 s of the newest one.
OverCap ==
    /\ messageTimestamps # <<>>
    /\ RecentCount(messageTimestamps, messageTimestamps[Len(messageTimestamps)])
          > requestsPerMinute

\* C28: with the eviction, the check and the append of a caller run as one
\* critical section, no interleaving of two callers on one deque brings
\* more than the cap of timestamps into one 60 s window (run as separate
\* steps there is such an interleaving: C28_Witness).
C28_CriticalSectionKeepsCap == (callers.stage = "run" /\ callers.atomic) => ~OverCap

\* Separate steps: both callers passed the check before either appended,
\* and the deque holds more timestamps of one window than the cap.
C28_Witness ==
    /\ callers.stage = "run"
    /\ ~callers.atomic
    /\ callers.sent = requestsPerMinute + 1
    /\ OverCap

TurnRecs == chatLogFile.recs

WaitKinds == {"RateWait", "WaitDone"}

OutcomeKinds == {"BlockWarn", "AIResponse", "SysError"}

\* The records of the turn in the order of its steps: the You record, then
\* the records of the wait, then the records of the outcome.
InStepOrder(recs) ==
    /\ recs[1] = "You"
    /\ \A k \in 2..Len(recs) : recs[k] \in WaitKinds \cup OutcomeKinds
    /\ \A j, k \in DOMAIN recs :
          (recs[j] \in WaitKinds /\ recs[k] \in OutcomeKinds) => j < k

\* C23: the steps of a turn occur in the order of the code: the You record
\* is written before the rate limiter is consulted; the wait, when there is
\* one, comes before the admission; the call is in flight only after its
\* timestamp is at the back of the deque; the response is classified only
\* after the call; and the outcome records come after all of these.
C23_TurnStepsInOrder ==
    /\ (pc \in {"RateLimitWait", "InFlight"} /\ HasChat) =>
          /\ TurnRecs[1] = "You"
          /\ \A k \in DOMAIN TurnRecs : TurnRecs[k] \notin OutcomeKinds
    /\ pc = "RateLimitWait" => (~turnCall /\ apiResult = "")
    /\ pc = "InFlight" =>
          /\ turnCall
          /\ apiResult = ""
          /\ messageTimestamps = queueAtAdmit
          /\ messageTimestamps[Len(messageTimestamps)] = sentTimes[Len(sentTimes)]
    /\ apiResult # "" => turnCall
    /\ (apiResult # "" /\ TurnRecs # <<>>) => InStepOrder(TurnRecs)

\* A turn that waited, was answered and logged: You, the wait, the outcome.
C23_Witness ==
    /\ pc = "TurnEnd"
    /\ apiResult = "Blocked"
    /\ TurnRecs = <<"You", "RateWait", "WaitDone", "BlockWarn", "AIResponse">>
    /\ messageTimestamps = queueAtAdmit

YouCount(recs) == Cardinality({k \in DOMAIN recs : recs[k] = "You"})

\* C24: turns are sequential. An input is taken up only at the top of the
\* loop, with no call admitted or in flight, no wait running and the
\* records of the turn before all written; a call is sent only when none of
\* this turn is in flight; and when the loop goes on to the next input the
\* records of the turn are one You record followed by the records of its
\* outcome, the last one the AI Therapist record or a System Error record.
C24_TurnsSequential ==
    [][/\ (userInput' # userInput /\ userInput' # Unbound) =>
             /\ pc = "AwaitingInput"
             /\ ~turnCall
             /\ apiResult = ""
             /\ TurnRecs = <<>>
       /\ YouCount(chatLogFile'.recs) > YouCount(TurnRecs) => TurnRecs = <<>>
       /\ (pc' = "InFlight" /\ pc # "InFlight") => (~turnCall /\ apiResult = "")
       /\ (pc = "TurnEnd" /\ pc' = "AwaitingInput" /\ TurnRecs # <<>>) =>
             /\ TurnRecs[1] = "You"
             /\ YouCount(TurnRecs) = 1
             /\ TurnRecs[Len(TurnRecs)] \in {"AIResponse", "SysError"}
             /\ chatLogFile'.recs = <<>>]_vars

\* The second turn of a session is submitted after the first one was
\* answered and logged.
C24_Witness ==
    /\ pc = "InFlight"
    /\ Len(sentTimes) = 2
    /\ TurnRecs = <<"You">>
    /\ Len(chatLogFile.stamps) >= 2

\* q without its first n entries, each of them older than 60 s at time t.
EvictedFrom(q, t) ==
    {SubSeq(q, n + 1, Len(q)) : n \in
        {m \in 0..Len(q) : \A k \in 1..m : t - q[k] > Window}}

\* C27: the deque is non-decreasing from front to back in every state, and
\* every step changes it in one of three ways only: entries older than 60 s
\* leave at the front; after such an eviction the time of the call is
\* appended at the back; or the newest entry, which is the one appended for
\* the call of this turn, is removed while that call is being handled.
C27_QueueDiscipline ==
    [][/\ NonDecreasing(messageTimestamps)
       /\ NonDecreasing(messageTimestamps')
       /\ \/ messageTimestamps' \in EvictedFrom(messageTimestamps, now')
          \/ \E q \in EvictedFrom(messageTimestamps, now') :
                messageTimestamps' = Append(q, now')
          \/ /\ pc = "InFlight"
             /\ turnCall
             /\ messageTimestamps = queueAtAdmit
             /\ messageTimestamps' =
                   SubSeq(queueAtAdmit, 1, Len(queueAtAdmit) - 1)]_vars

\* After a wait the oldest entry was evicted and the entry that is exactly
\* 60 s old was kept; the call sent then failed and was refunded.
C27_Witness ==
    /\ pc = "TurnEnd"
    /\ apiResult = "InvalidArgument"
    /\ waitTime > 0
    /\ Len(queueBeforeAdmit) = 2
    /\ Len(messageTimestamps) = 1
    /\ messageTimestamps = SubSeq(queueAtAdmit, 1, Len(queueAtAdmit) - 1)
    /\ queueAtAdmit[2] - messageTimestamps[1] = Window

\* The deque when the wait of this turn started: after the first eviction.
QueueAtWait == Evict(queueBeforeAdmit, waitStart)

\* C29: the deque never holds more entries than the cap; when the timestamp
\* of a call is appended the deque holds fewer entries than the cap; and
\* after a rate-limit wait the second eviction has removed at least the
\* oldest entry of the deque the wait was computed from.
C29_NeverOverfilled ==
    /\ Len(messageTimestamps) <= requestsPerMinute
    /\ turnCall =>
          /\ Len(queueAtAdmit) - 1 < requestsPerMinute
          /\ waitTime > 0 =>
                /\ Len(QueueAtWait) = requestsPerMinute
                /\ Len(queueAtAdmit) - 1 < Len(QueueAtWait)
                /\ queueAtAdmit[Len(queueAtAdmit)] - Head(QueueAtWait) > Window
                /\ SubSeq(queueAtAdmit, 1, Len(queueAtAdmit) - 1) =
                      Evict(Tail(QueueAtWait), queueAtAdmit[Len(queueAtAdmit)])

\* A call sent after a wait that ended exactly when computed: the oldest
\* entry, then 60.1 s old, is gone and the deque is full again.
C29_Witness ==
    /\ pc = "InFlight"
    /\ waitTime > 0
    /\ now = waitStart + waitTime
    /\ now - Head(QueueAtWait) = Window + Epsilon
    /\ Len(messageTimestamps) = requestsPerMinute

\* Each log file before and after a step.
LogSteps == {<<preLogFile, preLogFile'>>, <<chatLogFile, chatLogFile'>>}

\* C30: on every path no log stream is closed more than once, and once a
\* stream is closed nothing more is written to it: no record, no end
\* marker, no flush, no second close.
C30_ClosedStreamsLeftAlone ==
    [][\A step \in LogSteps :
          /\ step[1].closes <= 1
          /\ step[2].closes <= 1
          /\ step[1].stream = "closed" => step[2] = step[1]
          /\ step[2].closes = 1 <=> step[2].stream = "closed"]_vars

\* The model could not be initialized: the pre-chat log got the fatal
\* record, was closed there and main() has returned.
C30_Witness ==
    /\ pc = "Done"
    /\ fatalCause = "AIInit"
    /\ preLogFile.stream = "closed"
    /\ preLogFile.closes = 1
    /\ preLogFile.recs = <<"Context", "Fatal">>
    /\ preLogFile.endMarks = 0

\* A submitted turn is under way: the wait runs, the call is in flight, or
\* the loop is on its way out of the turn.
TurnUnderWay == pc \in {"RateLimitWait", "InFlight", "TurnEnd", "OuterExcept"}

\* The loop is back at the input or the process has ended.
TurnResolved == pc \in {"AwaitingInput", "Done"}

\* The clock of the model can reach the end of the wait.
ClockReachesWake == pc = "RateLimitWait" => waitStart + waitTime <= MaxTime

\* C31: a rate-limit wait is longer than zero and at most 60 s plus the
\* tenth of a second; and, the clock advancing and the call returning or
\* raising, every submitted turn leads to the loop being back at the input
\* or to the end of the process.
C31_TurnEventuallyResolved ==
    /\ [](pc = "RateLimitWait" =>
            (waitTime > 0 /\ waitTime <= Window + Epsilon))
    /\ (TurnUnderWay /\ ClockReachesWake) ~> TurnResolved

\* A turn that waited and whose call is now in flight.
C31_Witness ==
    /\ pc = "InFlight"
    /\ waitTime > 0
    /\ waitTime <= Window + Epsilon
    /\ now >= waitStart + waitTime

====
